---- MODULE Spec2Model ----
(***************************************************************************)
(* Qwen-ASR-GUI front end: the subtitle alignment engine, the streaming    *)
(* refinement session and the edit/revert ledger of the SubSync page       *)
(* (src/frontend/src/pages/SubSync.jsx; TaskDetail carries the same        *)
(* refinement and ledger code).                                            *)
(*                                                                         *)
(* Times are integers on a half-second grid (5.5 s is 11).  Array indices  *)
(* are the source's 0-based indices; sentence i of the source is element   *)
(* i + 1 of the TLA+ sequence.                                             *)
(***************************************************************************)
EXTENDS Integers, Sequences, FiniteSets, TLC

\* ------------------------------------------------------------------ bounds
MaxLen == 3        \* longest enumerated Sentence Store
MaxTime == 4       \* largest enumerated start time (half seconds)
MaxDur == 1        \* longest enumerated sentence duration (half seconds)
MaxUnits == 2      \* pieces a response stream is assembled from
MaxSentences == 2  \* longest Sentence Store of an opened task
MaxFrames == 2     \* frames delivered over all refinement responses
MaxSessions == 1   \* refinement sessions started
MaxPatches == 3    \* patches applied in one patch run
MaxCancels == 1    \* presses of the cancel button in one session run
MaxEvents == 3     \* ProgressEvents a progress stream delivers
MaxSubmits == 1    \* submissions (handleSubmit) in one run
MaxClicks == 1     \* clicks on a history entry in one run
MaxPlayerTime == 4 \* largest playback position (half seconds)

\* ------------------------------------------------------------- JS values
\* `undefined`, as the value of a sentence's original_text
Undefined == "undefined"

\* A sentence object {start, end, text, original_text?}
Sentence(s, e, t, o) == [start |-> s, end |-> e, text |-> t, original_text |-> o]

\* The argument of findActiveSubtitle: an array, or null/undefined
JsArr(a) == [null |-> FALSE, arr |-> a]
JsNull == [null |-> TRUE, arr |-> <<>>]

VARIABLES
    alSentences,   \* alignment call: the `sentences` argument
    alTime,        \* alignment call: the `currentTime` argument
    alResult,      \* alignment call: the returned index
    alPc           \* "call" before the call, "done" after it

VARIABLES
    stream,        \* response body of /api/llm/process, as characters
    consumed,      \* number of characters reader.read() has delivered so far
    buffer,        \* handleLlmProcess: `buffer`
    parsed,        \* the payloads handed to JSON.parse, in order
    readPc         \* "reading" inside the while loop, "closed" after break

VARIABLES
    phase,         \* SubSync state `phase`: "input" | "processing" | "ready"
    taskId,        \* SubSync state `taskId` (Null or a task id)
    sentences,     \* SubSync state `sentences`: the Sentence Store
    editingIndex,  \* SubSync state `editingIndex` (-1: no edit open)
    editValue,     \* SubSync state `editValue`: the edit buffer
    crashed        \* a state updater threw while rendering: the view is gone

VARIABLES
    llmProgress,   \* SubSync state `llmProgress` (-1: not running)
    llmError,      \* SubSync state `llmError`
    llmRequests,   \* handleLlmProcess calls awaiting the response of /api/llm/process
    llmReaders,    \* read loops that have not processed a done frame yet
    llmDoneReaders,\* read loops still open after processing a done frame
    llmTimers,     \* pending setTimeout(() => setLlmProgress(-1), 1000)
    llmStarted,    \* refinement sessions started so far
    framesLeft     \* frames the producers may still deliver

VARIABLES
    baseline,      \* history: per sentence, the text last loaded or saved
    loaded         \* history: per sentence, the text it had when the store was loaded

VARIABLES
    patchStart,    \* patch run: the store before the first patch
    patchPrev,     \* patch run: the store before the latest patch
    patchStore,    \* patch run: the store now
    patchLog       \* patch run: the patches applied, in order of arrival

VARIABLES
    frameIn,       \* frame run: the frame the read loop is about to process
    frameBefore    \* frame run: the store before that frame

VARIABLES
    resegmenting   \* SubSync state `resegmenting`: a resegment request is in flight

VARIABLES
    frameScript,     \* session run: the frames the producer sends, in order
    cancelAttempts,  \* session run: calls of handleLlmCancel
    cancelDelivered  \* session run: stop requests that reached /api/llm/cancel

VARIABLES
    progress,      \* SubSync state `progress`
    error,         \* SubSync state `error`
    subsOpen,      \* EventSources of listenProgress that are open
    submitPending, \* handleSubmit calls awaiting the response of the analyze request
    fetchPending,  \* fetchResult calls awaiting the response of /api/tasks/{tid}
    retryTimers,   \* pending setTimeout(() => fetchResult(tid), 2000)
    submits,       \* handleSubmit calls so far
    clicks,        \* clicks on a history entry so far
    eventScript,   \* the ProgressEvents the producer sends, in order
    eventsLeft     \* events of eventScript not yet delivered

\* SubSync player and time synchronisation
VARIABLES
    activeIndex,   \* SubSync state `activeIndex` (activeIndexRef.current follows it, lines 118-120)
    offset,        \* SubSync state `offset` in half seconds (offsetRef.current follows it, lines 122-124)
    player,        \* what playerRef.current plays: "none", "created", "cued", "playing", "paused", "ended"
    playerTime,    \* playerRef.current.getCurrentTime(), in half seconds
    timerRef,      \* timerRef.current: "null", "live" (an interval that runs), "cleared"
    timers,        \* intervals set by setInterval(syncSubtitle, 200) and not cleared
    passEmitted,   \* the last synchronisation pass called setActiveIndex
    mounted        \* the SubSync component is mounted

\* SubSync task list
VARIABLES
    historyLoading, \* a fetchHistory request (GET /api/tasks) is awaiting its response
    urlTask,        \* the taskId parameter of the URL (searchParams), Null when absent
    deletes         \* DELETE requests awaiting their response: the task id and the
                    \* taskId their handler saw

\* the edit ledger taken alone: runs of commitEdit, revert and revertAll
VARIABLES
    ledgerBefore,  \* the store before the operation before the last one
    ledgerPrev,    \* the store before the last operation
    ledgerStore,   \* the store now
    ledgerOps      \* the last two operations, the latest last

\* TaskDetail page
VARIABLES
    tdStatus,      \* task?.status of the TaskDetail state `task` ("none" while task is null)
    tdProgress,    \* task.progress
    tdLoading,     \* TaskDetail state `loading`
    tdSub,         \* EventSources of the SSE effect that are open
    tdTimers,      \* pending setTimeout(fetchTask, ...)
    tdFetches,     \* fetchTask calls awaiting their response
    srvStatus      \* status of the Task at the server

alignVars == <<alSentences, alTime, alResult, alPc>>
frameVars == <<frameIn, frameBefore>>
patchVars == <<patchStart, patchPrev, patchStore, patchLog>>
parseVars == <<stream, consumed, buffer, parsed, readPc>>
viewVars == <<phase, taskId, sentences, editingIndex, editValue, crashed>>
llmVars == <<llmProgress, llmError, llmRequests, llmReaders, llmDoneReaders,
             llmTimers, llmStarted, framesLeft>>
histVars == <<baseline, loaded>>
resegVars == <<resegmenting>>
scriptVars == <<frameScript>>
cancelVars == <<cancelAttempts, cancelDelivered>>
progView == <<progress, error>>
progNet == <<subsOpen, submitPending, fetchPending, retryTimers, submits, clicks,
             eventScript, eventsLeft>>
progVars == <<progView, progNet>>
tdVars == <<tdStatus, tdProgress, tdLoading, tdSub, tdTimers, tdFetches, srvStatus>>
listVars == <<historyLoading, urlTask, deletes>>
timerVars == <<timerRef, timers>>
syncVars == <<activeIndex, offset, player, playerTime, timerVars, passEmitted, mounted>>
ledgerVars == <<ledgerBefore, ledgerPrev, ledgerStore, ledgerOps>>
lateVars == <<tdVars, listVars, syncVars, ledgerVars>>
extVars == <<resegVars, scriptVars, cancelVars, progVars, lateVars>>
vars == <<alignVars, parseVars, patchVars, frameVars, viewVars, llmVars, histVars, extVars>>

\* `null`, as the value of taskId
Null == 0

\* The component is not in use (the specification at hand leaves it alone)
AlignOff == alSentences = JsNull /\ alTime = 0 /\ alResult = -1 /\ alPc = "off"
ParseOff == stream = <<>> /\ consumed = 0 /\ buffer = <<>> /\ parsed = <<>> /\ readPc = "off"

FrameOff == frameIn = [kind |-> "none"] /\ frameBefore = <<>>
PatchOff == patchStart = <<>> /\ patchPrev = <<>> /\ patchStore = <<>> /\ patchLog = <<>>
ResegOff == resegmenting = FALSE
ScriptOff == frameScript = <<>>
CancelOff == cancelAttempts = 0 /\ cancelDelivered = 0
ProgNetOff ==
    /\ subsOpen = 0 /\ submitPending = 0 /\ fetchPending = 0 /\ retryTimers = 0
    /\ submits = 0 /\ clicks = 0
    /\ eventScript = <<>> /\ eventsLeft = 0
ProgOff == progress = 0 /\ error = "" /\ ProgNetOff
TdOff ==
    /\ tdStatus = "none" /\ tdProgress = 0 /\ tdLoading = FALSE
    /\ tdSub = 0 /\ tdTimers = 0 /\ tdFetches = 0
    /\ srvStatus = "none"
\* lines 149-156: the effect that runs at mount has called fetchHistory
ListInit == historyLoading = TRUE /\ urlTask = Null /\ deletes = {}
\* lines 78, 81, 102, 104: no player, no timer, nothing active
SyncInit ==
    /\ activeIndex = -1 /\ offset = 0
    /\ player = "none" /\ playerTime = 0
    /\ timerRef = "null" /\ timers = 0
    /\ passEmitted = FALSE
    /\ mounted = TRUE
LedgerOff ==
    /\ ledgerBefore = <<>> /\ ledgerPrev = <<>>
    /\ ledgerStore = <<>> /\ ledgerOps = <<>>

LateOff == TdOff /\ ListInit /\ SyncInit /\ LedgerOff
ExtOff == ResegOff /\ ScriptOff /\ CancelOff /\ ProgOff /\ LateOff


\* SubSync.jsx 71-97: the component's initial state
ViewInit ==
    /\ phase = "input"
    /\ taskId = Null
    /\ sentences = <<>>
    /\ editingIndex = -1
    /\ editValue = ""
    /\ crashed = FALSE
    /\ llmProgress = -1
    /\ llmError = ""
    /\ llmRequests = 0
    /\ llmReaders = 0
    /\ llmDoneReaders = 0
    /\ llmTimers = 0
    /\ llmStarted = 0
    /\ baseline = <<>>
    /\ loaded = <<>>

\* The page is not in use
ViewOff == ViewInit /\ framesLeft = 0

\* ------------------------------------------------- findActiveSubtitle
\* SubSync.jsx 37-45: the binary search loop, on 0-based lo, hi, result
RECURSIVE BinarySearch(_, _, _, _, _)
BinarySearch(arr, currentTime, lo, hi, result) ==
    IF lo <= hi
    THEN LET mid == (lo + hi) \div 2
         IN  IF arr[mid + 1].start <= currentTime
             THEN BinarySearch(arr, currentTime, mid + 1, hi, mid)
             ELSE BinarySearch(arr, currentTime, lo, mid - 1, result)
    ELSE result

\* A search that drops `result = mid` on equality (start < currentTime)
RECURSIVE BinarySearchStrict(_, _, _, _, _)
BinarySearchStrict(arr, currentTime, lo, hi, result) ==
    IF lo <= hi
    THEN LET mid == (lo + hi) \div 2
         IN  IF arr[mid + 1].start < currentTime
             THEN BinarySearchStrict(arr, currentTime, mid + 1, hi, mid)
             ELSE BinarySearchStrict(arr, currentTime, lo, mid - 1, result)
    ELSE result

findActiveSubtitleStrict(sents, currentTime) ==
    IF sents.null \/ Len(sents.arr) = 0 THEN -1
    ELSE BinarySearchStrict(sents.arr, currentTime, 0, Len(sents.arr) - 1, -1)

\* A variant that blanks out once the sentence has ended
findActiveSubtitleBlank(sents, currentTime) ==
    IF sents.null \/ Len(sents.arr) = 0 THEN -1
    ELSE LET arr == sents.arr
             result == BinarySearch(arr, currentTime, 0, Len(arr) - 1, -1)
         IN  IF result >= 0 /\ arr[result + 1].end < currentTime THEN -1 ELSE result

\* SubSync.jsx 33-54 (the parameter `sentences` of the source is `sents` here)
findActiveSubtitle(sents, currentTime) ==
    IF sents.null \/ Len(sents.arr) = 0 THEN -1
    ELSE LET arr == sents.arr
             result == BinarySearch(arr, currentTime, 0, Len(arr) - 1, -1)
         IN  IF result >= 0 /\ arr[result + 1].end < currentTime
             THEN IF result + 1 < Len(arr) /\ arr[result + 2].start > currentTime
                  THEN result
                  ELSE result
             ELSE result

\* ------------------------------------------- alignment: the enumerated inputs
\* Sequences of length n over 0..MaxTime, non-decreasing
RECURSIVE SortedStarts(_)
SortedStarts(n) ==
    IF n = 0 THEN {<<>>}
    ELSE {Append(p, x) : p \in SortedStarts(n - 1), x \in 0..MaxTime} \cap
         {q \in [1..n -> 0..MaxTime] : \A i \in 1..(n - 1) : q[i] <= q[i + 1]}

\* Stores ordered by non-decreasing start, start <= end; ends may overlap the
\* next sentence's start
SortedStores ==
    UNION {{[i \in 1..n |-> Sentence(st[i], st[i] + du[i], "s", Undefined)] :
               st \in SortedStarts(n), du \in [1..n -> 0..MaxDur]} : n \in 0..MaxLen}

\* spec.md section 8: [{0,2,"A"},{2,5,"B"},{6,8,"C"}], on the half-second grid
ExampleStore ==
    <<Sentence(0, 4, "A", Undefined), Sentence(4, 10, "B", Undefined),
      Sentence(12, 16, "C", Undefined)>>

\* t = 1, 3, 5.5, 6.5, -1 seconds
ExampleTimes == {2, 6, 11, 13, -2}

AlignInputs ==
    ({JsArr(s) : s \in SortedStores} \cup {JsNull}) \X ((-1)..(MaxTime + MaxDur + 1))
    \cup ({JsArr(ExampleStore)} \X ExampleTimes)

InitAlign ==
    /\ \E in \in AlignInputs : alSentences = in[1] /\ alTime = in[2]
    /\ alResult = -1
    /\ alPc = "call"
    /\ ParseOff
    /\ PatchOff
    /\ ExtOff
    /\ FrameOff
    /\ ViewOff

\* One call of findActiveSubtitle(sentences, currentTime)
AlignCall ==
    /\ alPc = "call"
    /\ alResult' = findActiveSubtitle(alSentences, alTime)
    /\ alPc' = "done"
    /\ UNCHANGED <<alSentences, alTime, parseVars, patchVars, frameVars, extVars, viewVars, llmVars, histVars>>

NextAlign == AlignCall

SpecAlign == InitAlign /\ [][NextAlign]_vars

\* ------------------------------------------------------------------ C1
\* The indices i (0-based) of the store with sentences[i].start <= t
StartedBy(arr, t) == {i \in 0..(Len(arr) - 1) : arr[i + 1].start <= t}

Max(S) == CHOOSE x \in S : \A y \in S : y <= x

\* C1: on a store ordered by non-decreasing start, findActiveSubtitle returns
\* the largest index i with sentences[i].start <= t, and -1 when there is no
\* such index, also for an empty or missing store.
C1_LargestStarted ==
    alPc = "done" =>
        LET S == StartedBy(alSentences.arr, alTime)
        IN  alResult = IF alSentences.null \/ S = {} THEN -1 ELSE Max(S)

\* a call that found a sentence which is not the first one, with a later
\* sentence not yet started
C1_Witness ==
    /\ alPc = "done"
    /\ ~alSentences.null
    /\ alResult >= 1
    /\ alResult + 1 < Len(alSentences.arr)

\* ------------------------------------------------------------------ C2
\* C2: the result does not depend on the end values: whenever
\* sentences[i].start <= t and i is the last index or t < sentences[i+1].start,
\* the call returns i even if t > sentences[i].end (in a gap, and after the
\* last sentence, the earlier sentence stays selected); for the store
\* [{0,2},{2,5},{6,8}]: t=1 -> 0, t=3 -> 1, t=5.5 -> 1, t=6.5 -> 2, t=-1 -> -1.
C2_GapKeepsEarlier ==
    alPc = "done" /\ ~alSentences.null =>
        LET arr == alSentences.arr
        IN  /\ \A i \in 0..(Len(arr) - 1) :
                   (/\ arr[i + 1].start <= alTime
                    /\ (i = Len(arr) - 1 \/ alTime < arr[i + 2].start))
                   => alResult = i
            /\ arr = ExampleStore =>
                   alResult = CASE alTime = 2 -> 0
                                [] alTime = 6 -> 1
                                [] alTime = 11 -> 1
                                [] alTime = 13 -> 2
                                [] alTime = -2 -> -1
                                [] OTHER -> alResult

\* a call in the gap after sentence B of the example (t = 5.5 s)
C2_Witness ==
    /\ alPc = "done"
    /\ alSentences = JsArr(ExampleStore)
    /\ alTime = 11
    /\ alResult = 1

\* ------------------------------------------------------------------------
\* The refinement response as a character stream (SubSync.jsx 474-488)
\* ------------------------------------------------------------------------
NL == "\n"
DataMarker == <<"d", "a", "t", "a", ":", " ">>

\* String.prototype.split("\n\n"): scan left to right, cut at each "\n\n"
RECURSIVE SplitFrom(_, _, _, _)
SplitFrom(s, i, cur, acc) ==
    IF i > Len(s) THEN Append(acc, cur)
    ELSE IF s[i] = NL /\ i + 1 <= Len(s) /\ s[i + 1] = NL
         THEN SplitFrom(s, i + 2, <<>>, Append(acc, cur))
         ELSE SplitFrom(s, i + 1, Append(cur, s[i]), acc)

Split(s) == SplitFrom(s, 1, <<>>, <<>>)

\* part.startsWith('data: ')
StartsWithData(part) ==
    Len(part) >= Len(DataMarker) /\ SubSeq(part, 1, Len(DataMarker)) = DataMarker

\* part.substring(6)
Payload(part) == SubSeq(part, Len(DataMarker) + 1, Len(part))

\* for (const part of parts) if (part.startsWith('data: ')) JSON.parse(part.substring(6))
RECURSIVE PayloadsOf(_)
PayloadsOf(parts) ==
    IF parts = <<>> THEN <<>>
    ELSE (IF StartsWithData(Head(parts)) THEN <<Payload(Head(parts))>> ELSE <<>>)
         \o PayloadsOf(Tail(parts))

\* parts without its last element (the array after parts.pop())
Front(parts) == SubSeq(parts, 1, Len(parts) - 1)

\* A loop that forgets the remainder
CarryDropped(parts) == <<>>

\* line 481: buffer = parts.pop() || ""
Carry(parts) == parts[Len(parts)]

\* One pass of the loop body on a chunk: [buffer, parsed]
ReadChunk(buf, chunk) ==
    LET parts == Split(buf \o chunk)
    IN  [buffer |-> Carry(parts), parsed |-> PayloadsOf(Front(parts))]

\* The pieces a producer's stream is assembled from: two well-formed frames,
\* a stray newline, a non-data line, and a frame cut short
Frame(p) == DataMarker \o <<p, NL, NL>>
Units == {Frame("P"), Frame("Q"), <<NL>>, <<"x", NL, NL>>, <<"d", "a", "t", "a">>}

RECURSIVE Streams(_)
Streams(n) ==
    IF n = 0 THEN {<<>>}
    ELSE Streams(n - 1) \cup {s \o u : s \in Streams(n - 1), u \in Units}

InitParse ==
    /\ stream \in Streams(MaxUnits)
    /\ consumed = 0
    /\ buffer = <<>>
    /\ parsed = <<>>
    /\ readPc = "reading"
    /\ AlignOff
    /\ PatchOff
    /\ ExtOff
    /\ FrameOff
    /\ ViewOff

\* reader.read() resolves with a chunk of k characters: lines 476-488
ReadValue ==
    /\ readPc = "reading"
    /\ \E k \in 1..(Len(stream) - consumed) :
           LET r == ReadChunk(buffer, SubSeq(stream, consumed + 1, consumed + k))
           IN  /\ buffer' = r.buffer
               /\ parsed' = parsed \o r.parsed
               /\ consumed' = consumed + k
    /\ UNCHANGED <<stream, readPc, alignVars, patchVars, frameVars, extVars, viewVars, llmVars, histVars>>

\* reader.read() resolves with done: line 477, break
ReadDone ==
    /\ readPc = "reading"
    /\ consumed = Len(stream)
    /\ readPc' = "closed"
    /\ UNCHANGED <<stream, consumed, buffer, parsed, alignVars, patchVars, frameVars, extVars, viewVars, llmVars, histVars>>

NextParse == ReadValue \/ ReadDone

SpecParse == InitParse /\ [][NextParse]_vars

\* ------------------------------------------------------------------ C4
\* The stream delivered so far, read as one single chunk
Unsplit == ReadChunk(<<>>, SubSeq(stream, 1, consumed))

\* C4: however the stream is cut into reads, the frames parsed so far are the
\* frames of the unsplit stream, each once and in order, no frame is parsed
\* before its delimiter has arrived, and the incomplete remainder is carried
\* in the buffer.
C4_ChunkingIndependent ==
    /\ parsed = Unsplit.parsed
    /\ buffer = Unsplit.buffer
    /\ Len(parsed) <= Cardinality({i \in 2..consumed : stream[i - 1] = NL /\ stream[i] = NL})

\* a read ended inside the second frame: the first frame has been parsed and
\* the beginning of the second is carried in the buffer
C4_Witness ==
    /\ readPc = "reading"
    /\ stream = Frame("P") \o Frame("Q")
    /\ consumed = Len(Frame("P")) + 3
    /\ parsed = <<<<"P">>>>
    /\ buffer = <<"d", "a", "t">>

\* ------------------------------------------------------------------------
\* The SubSync page: Sentence Store, edit/revert ledger, refinement session
\* ------------------------------------------------------------------------
Texts == {"a", "b"}
Percents == {50, 100}
TaskIds == {1}

\* llmError messages: line 495, line 467 and a failed read (e.message)
Interrupted == "interrupted"
StartFailed == "start failed"
ReadFailed == "read failed"

\* The value a revert would restore: original_text if present, else text
Pristine(s) == IF s.original_text # Undefined THEN s.original_text ELSE s.text
PristineTexts(ss) == [i \in 1..Len(ss) |-> Pristine(ss[i])]
CurrentTexts(ss) == [i \in 1..Len(ss) |-> ss[i].text]

\* Sentences as the server hands them out: a fresh one, or a refined one that
\* carries its original; sentence i spans [2i, 2i+1] on the grid
ServerSentences == {Sentence(0, 1, "a", Undefined), Sentence(0, 1, "b", "a")}
ServerStores ==
    UNION {{[i \in 1..n |-> [x EXCEPT !.start = 2 * (i - 1), !.end = 2 * (i - 1) + 1]] :
               x \in ServerSentences} : n \in 0..MaxSentences}

\* The frames of a refinement response (after JSON.parse); "malformed" is a
\* payload JSON.parse rejects
PatchFrames ==
    [kind : {"patch"}, index : 0..(MaxSentences - 1), processed_text : Texts,
     percent : Percents]
DoneFrames ==
    [kind : {"done"}, hasSentences : {FALSE}, sentences : {<<>>},
     cancelled : BOOLEAN, percent : Percents]
    \cup [kind : {"done"}, hasSentences : {TRUE}, sentences : ServerStores,
          cancelled : BOOLEAN, percent : Percents]
MalformedFrame == [kind |-> "malformed"]
Frames == PatchFrames \cup DoneFrames \cup {MalformedFrame}

\* A patch that captures the baseline on every frame
PatchSentenceRecapture(curr, processed_text) ==
    [curr EXCEPT !.original_text = curr.text, !.text = processed_text]

\* A patch that captures the text after the update
PatchSentenceLate(curr, processed_text) ==
    [curr EXCEPT
        !.original_text = IF curr.original_text # Undefined
                          THEN curr.original_text ELSE processed_text,
        !.text = processed_text]

\* lines 503-507: {...curr, original_text: ..., text: data.processed_text}
PatchSentence(curr, processed_text) ==
    [curr EXCEPT
        !.original_text = IF curr.original_text # Undefined
                          THEN curr.original_text ELSE curr.text,
        !.text = processed_text]

\* An updater that captures the first sentence's text as the original
ApplyPatchFirstOriginal(prev, index, processed_text) ==
    [prev EXCEPT ![index + 1] =
        [prev[index + 1] EXCEPT
            !.original_text = IF prev[index + 1].original_text # Undefined
                              THEN prev[index + 1].original_text ELSE prev[1].text,
            !.text = processed_text]]

\* An updater that patches every sentence of the store
ApplyPatchAll(prev, index, processed_text) ==
    [i \in 1..Len(prev) |-> PatchSentence(prev[i], processed_text)]

\* lines 500-509: the updater of a non-terminal frame, for an index of prev
ApplyPatch(prev, index, processed_text) ==
    [prev EXCEPT ![index + 1] = PatchSentence(prev[index + 1], processed_text)]

\* A terminal frame that replaces the store only by a non-empty sequence
TerminalStoreNonEmpty(prev, f) ==
    IF f.hasSentences /\ Len(f.sentences) > 0 THEN f.sentences ELSE prev

\* lines 491-493: if (data.sentences) setSentences(data.sentences)
TerminalStore(prev, f) == IF f.hasSentences THEN f.sentences ELSE prev

\* A terminal frame that never reports the interruption
TerminalErrorSilent(prev, f) == prev

\* lines 494-496: if (data.cancelled) setLlmError('已中斷處理')
TerminalError(prev, f) == IF f.cancelled THEN Interrupted ELSE prev

\* A saveEdit that captures the edited text instead of the pre-edit text
SaveEditLateCapture(prev, idx, value) ==
    LET s == prev[idx + 1]
    IN  [prev EXCEPT ![idx + 1] =
            [s EXCEPT !.original_text = IF s.original_text = Undefined /\ s.text # value
                                        THEN value ELSE s.original_text,
                      !.text = value]]

\* An updater that captures original_text at every edit that changes the text
SaveEditCapturesAgain(prev, idx, value) ==
    LET s == prev[idx + 1]
    IN  [prev EXCEPT ![idx + 1] =
            [s EXCEPT !.original_text = IF s.text # value THEN s.text ELSE s.original_text,
                      !.text = value]]

\* lines 567-574: the updater of saveEdit
SaveEditUpdate(prev, idx, value) ==
    LET s == prev[idx + 1]
    IN  [prev EXCEPT ![idx + 1] =
            [s EXCEPT !.original_text = IF s.original_text = Undefined /\ s.text # value
                                        THEN s.text ELSE s.original_text,
                      !.text = value]]

\* An updater that clears original_text and leaves the text
RevertUpdateKeepsText(prev, idx) ==
    [prev EXCEPT ![idx + 1] = [prev[idx + 1] EXCEPT !.original_text = Undefined]]

\* An updater that restores the text of every line up to idx
RevertUpdateUpTo(prev, idx) ==
    [i \in 1..Len(prev) |->
        IF i <= idx + 1 /\ prev[i].original_text # Undefined
        THEN [prev[i] EXCEPT !.text = prev[i].original_text, !.original_text = Undefined]
        ELSE prev[i]]

\* lines 580-587: the updater of handleRevertEdit
RevertUpdate(prev, idx) ==
    LET s == prev[idx + 1]
    IN  [prev EXCEPT ![idx + 1] =
            IF s.original_text # Undefined
            THEN [s EXCEPT !.text = s.original_text, !.original_text = Undefined]
            ELSE s]

\* An updater that reverts only the first line
RevertAllUpdateFirst(prev) ==
    [i \in 1..Len(prev) |->
        IF i = 1 /\ prev[i].original_text # Undefined
        THEN [prev[i] EXCEPT !.text = prev[i].original_text, !.original_text = Undefined]
        ELSE prev[i]]

\* lines 592-601: the updater of handleRevertAll
RevertAllUpdate(prev) ==
    [i \in 1..Len(prev) |->
        IF prev[i].original_text # Undefined
        THEN [prev[i] EXCEPT !.text = prev[i].original_text, !.original_text = Undefined]
        ELSE prev[i]]

\* line 1022: isModified
IsModified(s) == s.original_text # Undefined /\ s.original_text # s.text

\* A startTimeSync that sets a new interval without clearing the one it has
startTimeSyncNoClear ==
    /\ timers' = timers + 1
    /\ timerRef' = "live"

\* lines 397-400: startTimeSync
startTimeSync ==
    /\ timers' = (IF timerRef = "live" THEN timers - 1 ELSE timers) + 1
    /\ timerRef' = "live"

\* lines 402-407: stopTimeSync
stopTimeSync ==
    IF timerRef # "null"
    THEN /\ timers' = (IF timerRef = "live" THEN timers - 1 ELSE timers)
         /\ timerRef' = "null"
    ELSE UNCHANGED timerVars

\* lines 309-383: initPlayer puts a new player in place of the one there is; a
\* YouTube player accepts calls once it is ready, a local player at once
initPlayer ==
    /\ player' = "created"
    /\ playerTime' = 0
    /\ UNCHANGED <<activeIndex, offset, timerVars, passEmitted, mounted>>

Init ==
    /\ ViewInit
    /\ framesLeft = MaxFrames
    /\ AlignOff
    /\ ParseOff
    /\ PatchOff
    /\ ExtOff
    /\ FrameOff

\* History click, then fetchResult's completed branch: lines 752, 272-288
OpenTask(tid, data) ==
    /\ ~crashed
    /\ phase = "input"
    /\ sentences' = data
    /\ taskId' = tid
    /\ phase' = "ready"
    /\ baseline' = PristineTexts(data)
    /\ loaded' = PristineTexts(data)
    /\ historyLoading' = TRUE
    /\ urlTask' = tid
    /\ initPlayer
    /\ UNCHANGED <<editingIndex, editValue, crashed, llmVars, alignVars, parseVars, patchVars,
                   frameVars, resegVars, scriptVars, cancelVars, progVars, tdVars, ledgerVars,
                   deletes>>

\* lines 418-442: the body of handleReset
resetView ==
    /\ stopTimeSync
    /\ player' = "none"
    /\ playerTime' = 0
    /\ activeIndex' = -1
    /\ UNCHANGED <<offset, passEmitted, mounted>>
    /\ phase' = "input"
    /\ taskId' = Null
    /\ sentences' = <<>>
    /\ progress' = 0
    /\ error' = ""
    /\ baseline' = <<>>
    /\ loaded' = <<>>
    /\ historyLoading' = TRUE
    /\ urlTask' = Null
    /\ UNCHANGED <<editingIndex, editValue, crashed, llmVars, alignVars, parseVars, patchVars,
                   frameVars, resegVars, scriptVars, cancelVars, progNet>>
    /\ UNCHANGED <<tdVars, ledgerVars>>

\* lines 418-442, from the "new analysis" button of the ready phase (line 864)
\* or the restart button under the error of the processing phase (line 817)
handleReset ==
    /\ ~crashed
    /\ phase = "ready" \/ (phase = "processing" /\ error # "")
    /\ resetView
    /\ UNCHANGED deletes

\* lines 561-564, from a double click on line idx (line 1030)
startEdit(idx) ==
    /\ ~crashed
    /\ phase = "ready"
    /\ idx < Len(sentences)
    /\ editingIndex' = idx
    /\ editValue' = sentences[idx + 1].text
    /\ UNCHANGED <<phase, taskId, sentences, crashed, llmVars, histVars, alignVars, parseVars, patchVars, frameVars, extVars>>

\* line 1041: onChange of the textarea of the line being edited
setEditValue(v) ==
    /\ ~crashed
    /\ phase = "ready"
    /\ editingIndex >= 0 /\ editingIndex < Len(sentences)
    /\ editValue' = v
    /\ UNCHANGED <<phase, taskId, sentences, editingIndex, crashed, llmVars, histVars,
                   alignVars, parseVars, patchVars, frameVars, extVars>>

\* lines 566-576, from onBlur of the textarea of line idx (line 1042)
saveEdit(idx) ==
    /\ ~crashed
    /\ phase = "ready"
    /\ idx = editingIndex /\ idx < Len(sentences)
    /\ sentences' = SaveEditUpdate(sentences, idx, editValue)
    /\ editingIndex' = -1
    /\ UNCHANGED <<phase, taskId, editValue, crashed, llmVars, histVars, alignVars, parseVars, patchVars, frameVars, extVars>>

\* lines 578-588, from the revert button of a modified line (lines 1022, 1057)
handleRevertEdit(idx) ==
    /\ ~crashed
    /\ phase = "ready"
    /\ idx < Len(sentences) /\ idx # editingIndex
    /\ IsModified(sentences[idx + 1])
    /\ sentences' = RevertUpdate(sentences, idx)
    /\ UNCHANGED <<phase, taskId, editingIndex, editValue, crashed, llmVars, histVars,
                   alignVars, parseVars, patchVars, frameVars, extVars>>

\* lines 590-602, from the revert-all button (line 983); confirmed is confirm()'s answer
handleRevertAll(confirmed) ==
    /\ ~crashed
    /\ phase = "ready"
    /\ \E i \in 1..Len(sentences) : sentences[i].original_text # Undefined
    /\ sentences' = IF confirmed THEN RevertAllUpdate(sentences) ELSE sentences
    /\ UNCHANGED <<phase, taskId, editingIndex, editValue, crashed, llmVars, histVars,
                   alignVars, parseVars, patchVars, frameVars, extVars>>

\* A save that clears original_text once the server has stored the sentences
handleSaveSentencesClears(ok) ==
    /\ ~crashed
    /\ phase = "ready"
    /\ llmProgress < 0
    /\ taskId # Null
    /\ baseline' = IF ok THEN CurrentTexts(sentences) ELSE baseline
    /\ sentences' = IF ok
                    THEN [i \in 1..Len(sentences) |->
                             [sentences[i] EXCEPT !.original_text = Undefined]]
                    ELSE sentences
    /\ UNCHANGED <<phase, taskId, editingIndex, editValue, crashed, llmVars, loaded,
                   alignVars, parseVars, patchVars, frameVars, extVars>>

\* lines 541-558, from the save button (disabled while llmProgress >= 0); ok is
\* whether /api/llm/save stored the sentences it was sent
handleSaveSentences(ok) ==
    /\ ~crashed
    /\ phase = "ready"
    /\ llmProgress < 0
    /\ taskId # Null
    /\ baseline' = IF ok THEN CurrentTexts(sentences) ELSE baseline
    /\ UNCHANGED <<viewVars, llmVars, loaded, alignVars, parseVars, patchVars, frameVars, extVars>>

\* lines 445-465: the run button (disabled while llmProgress >= 0), up to the
\* await of the request
handleLlmProcess ==
    /\ ~crashed
    /\ phase = "ready"
    /\ llmProgress < 0
    /\ taskId # Null
    /\ llmStarted < MaxSessions
    /\ llmProgress' = 0
    /\ llmError' = ""
    /\ editingIndex' = -1
    /\ llmRequests' = llmRequests + 1
    /\ llmStarted' = llmStarted + 1
    /\ UNCHANGED <<phase, taskId, sentences, editValue, crashed, llmReaders, llmDoneReaders,
                   llmTimers, framesLeft, histVars, alignVars, parseVars, patchVars, frameVars, extVars>>

\* lines 467-474 and 515-518: the response of /api/llm/process arrives
LlmResponse(ok) ==
    /\ ~crashed
    /\ llmRequests > 0
    /\ llmRequests' = llmRequests - 1
    /\ IF ok
       THEN /\ llmReaders' = llmReaders + 1
            /\ UNCHANGED <<llmProgress, llmError>>
       ELSE /\ llmError' = StartFailed
            /\ llmProgress' = -1
            /\ UNCHANGED llmReaders
    /\ UNCHANGED <<viewVars, llmDoneReaders, llmTimers, llmStarted, framesLeft, histVars,
                   alignVars, parseVars, patchVars, frameVars, extVars>>

\* A parse failure that escapes to the outer catch (lines 515-518) and ends
\* the read loop
MalformedAborts(afterDone) ==
    /\ llmError' = ReadFailed
    /\ llmProgress' = -1
    /\ IF afterDone
       THEN llmDoneReaders' = llmDoneReaders - 1 /\ UNCHANGED llmReaders
       ELSE llmReaders' = llmReaders - 1 /\ UNCHANGED llmDoneReaders
    /\ UNCHANGED <<llmTimers, sentences, crashed, histVars>>

\* lines 485-486, 511: JSON.parse throws, catch (e) { console.error(...) }
MalformedStep(afterDone) ==
    UNCHANGED <<llmProgress, llmError, llmReaders, llmDoneReaders, llmTimers,
                sentences, crashed, histVars>>

\* lines 484-513: one complete frame of a read; afterDone tells whether the
\* loop that reads it has processed a done frame before
LlmFrame(f, afterDone) ==
    /\ ~crashed
    /\ framesLeft > 0
    /\ IF afterDone THEN llmDoneReaders > 0 ELSE llmReaders > 0
    /\ framesLeft' = framesLeft - 1
    /\ CASE f.kind = "malformed" -> MalformedStep(afterDone)
         [] f.kind = "done" ->
              /\ llmProgress' = f.percent
              /\ IF f.hasSentences
                 THEN /\ sentences' = TerminalStore(sentences, f)
                      /\ baseline' = PristineTexts(f.sentences)
                      /\ loaded' = PristineTexts(f.sentences)
                 ELSE UNCHANGED <<sentences, histVars>>
              /\ llmError' = TerminalError(llmError, f)
              /\ llmTimers' = llmTimers + 1
              /\ IF afterDone
                 THEN UNCHANGED <<llmReaders, llmDoneReaders>>
                 ELSE /\ llmReaders' = llmReaders - 1
                      /\ llmDoneReaders' = llmDoneReaders + 1
              /\ UNCHANGED crashed
         [] f.kind = "patch" ->
              /\ llmProgress' = f.percent
              /\ IF f.index < Len(sentences)
                 THEN /\ sentences' = ApplyPatch(sentences, f.index, f.processed_text)
                      /\ UNCHANGED crashed
                 ELSE /\ crashed' = TRUE
                      /\ UNCHANGED sentences
              /\ UNCHANGED <<llmError, llmReaders, llmDoneReaders, llmTimers, histVars>>
    /\ UNCHANGED <<phase, taskId, editingIndex, editValue, llmRequests, llmStarted,
                   alignVars, parseVars, patchVars, frameVars, extVars>>

\* line 476 throws (the connection broke): lines 515-518
LlmReadError(afterDone) ==
    /\ ~crashed
    /\ IF afterDone
       THEN llmDoneReaders > 0 /\ llmDoneReaders' = llmDoneReaders - 1 /\ UNCHANGED llmReaders
       ELSE llmReaders > 0 /\ llmReaders' = llmReaders - 1 /\ UNCHANGED llmDoneReaders
    /\ llmError' = ReadFailed
    /\ llmProgress' = -1
    /\ UNCHANGED <<viewVars, llmRequests, llmTimers, llmStarted, framesLeft, histVars,
                   alignVars, parseVars, patchVars, frameVars, extVars>>

\* line 477: the response stream ended, break
LlmReadDone(afterDone) ==
    /\ ~crashed
    /\ IF afterDone
       THEN llmDoneReaders > 0 /\ llmDoneReaders' = llmDoneReaders - 1 /\ UNCHANGED llmReaders
       ELSE llmReaders > 0 /\ llmReaders' = llmReaders - 1 /\ UNCHANGED llmDoneReaders
    /\ UNCHANGED <<viewVars, llmProgress, llmError, llmRequests, llmTimers, llmStarted,
                   framesLeft, histVars, alignVars, parseVars, patchVars, frameVars, extVars>>

\* line 497: the timer set by a done frame fires
LlmTimerFire ==
    /\ ~crashed
    /\ llmTimers > 0
    /\ llmTimers' = llmTimers - 1
    /\ llmProgress' = -1
    /\ UNCHANGED <<viewVars, llmError, llmRequests, llmReaders, llmDoneReaders, llmStarted,
                   framesLeft, histVars, alignVars, parseVars, patchVars, frameVars, extVars>>

Next ==
    \/ \E tid \in TaskIds, data \in ServerStores : OpenTask(tid, data)
    \/ handleReset
    \/ \E idx \in 0..(MaxSentences - 1) : startEdit(idx)
    \/ \E v \in Texts : setEditValue(v)
    \/ \E idx \in 0..(MaxSentences - 1) : saveEdit(idx)
    \/ \E idx \in 0..(MaxSentences - 1) : handleRevertEdit(idx)
    \/ \E confirmed \in BOOLEAN : handleRevertAll(confirmed)
    \/ \E ok \in BOOLEAN : handleSaveSentences(ok)
    \/ handleLlmProcess
    \/ \E ok \in BOOLEAN : LlmResponse(ok)
    \/ \E f \in Frames, afterDone \in BOOLEAN : LlmFrame(f, afterDone)
    \/ \E afterDone \in BOOLEAN : LlmReadError(afterDone)
    \/ \E afterDone \in BOOLEAN : LlmReadDone(afterDone)
    \/ LlmTimerFire

Spec == Init /\ [][Next]_vars

LedgerSentences == {Sentence(0, 1, t, o) : t \in Texts, o \in {Undefined} \cup Texts}
LedgerStores ==
    UNION {{[i \in 1..n |-> [q[i] EXCEPT !.start = 2 * (i - 1), !.end = 2 * (i - 1) + 1]] :
               q \in [1..n -> LedgerSentences]} : n \in 0..MaxSentences}

InitFrame ==
    /\ phase = "ready"
    /\ taskId \in TaskIds
    /\ sentences \in LedgerStores
    /\ editingIndex = -1
    /\ editValue = ""
    /\ crashed = FALSE
    /\ llmProgress \in {0, 50}
    /\ llmError = ""
    /\ llmRequests = 0
    /\ \/ llmReaders = 1 /\ llmDoneReaders = 0 /\ llmTimers = 0
       \/ llmReaders = 0 /\ llmDoneReaders = 1 /\ llmTimers = 1
    /\ llmStarted = 1
    /\ framesLeft = 1
    /\ baseline = PristineTexts(sentences)
    /\ loaded = PristineTexts(sentences)
    /\ frameIn \in Frames
    /\ frameBefore = sentences
    /\ AlignOff
    /\ ParseOff
    /\ PatchOff
    /\ ExtOff

\* The read loop processes frameIn
DeliverFrame == \E afterDone \in BOOLEAN : LlmFrame(frameIn, afterDone)

NextFrame == DeliverFrame

SpecFrame == InitFrame /\ [][NextFrame]_vars

\* frameIn has been processed
FrameProcessed == framesLeft = 0

\* ------------------------------------------------------------------ C5
\* C5: a non-terminal frame {index, processed_text, percent} sets
\* sentence[index].text to processed_text; original_text becomes the
\* pre-update text if it was not set and is left as it was otherwise.
C5_PatchFirstWriteWins ==
    (FrameProcessed /\ frameIn.kind = "patch" /\ frameIn.index < Len(frameBefore)) =>
        LET old == frameBefore[frameIn.index + 1]
            new == sentences[frameIn.index + 1]
        IN  /\ new.text = frameIn.processed_text
            /\ new.original_text =
                   IF old.original_text = Undefined THEN old.text ELSE old.original_text

\* a patch has changed the text of the second sentence, which had no
\* original_text before
C5_Witness ==
    /\ FrameProcessed
    /\ frameIn.kind = "patch" /\ frameIn.index = 1
    /\ Len(frameBefore) = 2
    /\ frameBefore[2].original_text = Undefined
    /\ frameBefore[2].text = "a"
    /\ sentences[2].text = "b" /\ sentences[2].original_text = "a"

C9_NoFrameAfterDone ==
    [][\A f \in Frames :
          LlmFrame(f, TRUE) => (sentences' = sentences /\ llmProgress' = llmProgress)]_vars

\* ----------------------------------------------------------------- C38
\* C38: llmProgress >= 0 holds from the start of a refinement session until
\* its read loop has stopped reading (or the request has failed): while a
\* request is awaiting its response or a read loop is open, llmProgress >= 0.
C38_RefiningCoversSession ==
    (llmRequests + llmReaders + llmDoneReaders > 0) => llmProgress >= 0

\* ----------------------------------------------------------------- C10
\* What the runtime guarantees: a pending timer fires, a pending request is
\* answered, and every read() of an open loop resolves (with a frame, an
\* error, or the end of the stream)
ReadResolves(afterDone) ==
    \/ \E f \in Frames : LlmFrame(f, afterDone)
    \/ LlmReadError(afterDone)
    \/ LlmReadDone(afterDone)

SpecLive ==
    /\ Spec
    /\ WF_vars(LlmTimerFire)
    /\ WF_vars(\E ok \in BOOLEAN : LlmResponse(ok))
    /\ WF_vars(ReadResolves(FALSE))
    /\ WF_vars(ReadResolves(TRUE))

\* C10: every refinement session that was started eventually sets llmProgress
\* back to -1, however it ends (as long as the page is still there).
C10_ProgressResets == (llmProgress >= 0) ~> (llmProgress = -1 \/ crashed)

\* ----------------------------------------------------------------- C11
\* C11: while a refinement session is active (llmProgress >= 0) manual edits
\* are disallowed: startEdit cannot open an edit and saveEdit cannot write an
\* edited text into the Sentence Store.
C11_NoEditWhileRefining ==
    [][\A idx \in 0..(MaxSentences - 1) :
          (startEdit(idx) \/ saveEdit(idx)) => llmProgress < 0]_vars

\* ------------------------------------------------------------------------
\* Resegmentation (SubSync.jsx 614-637)
\* ------------------------------------------------------------------------
\* Stores a resegmentation returns: freshly cut sentences
ResegStores ==
    {st \in ServerStores : \A i \in 1..Len(st) : st[i].original_text = Undefined}

\* lines 614-616, from the apply button (disabled while resegmenting, line 859)
handleResegment ==
    /\ ~crashed
    /\ phase = "ready"
    /\ ~resegmenting
    /\ taskId # Null
    /\ resegmenting' = TRUE
    /\ UNCHANGED <<viewVars, llmVars, histVars, alignVars, parseVars, patchVars, frameVars,
                   scriptVars, cancelVars, progVars>>
    /\ UNCHANGED lateVars

\* A response handler that carries the old original_text over, line by line
ResegmentResponseMerges(ok, data) ==
    /\ ~crashed
    /\ resegmenting
    /\ resegmenting' = FALSE
    /\ IF ok
       THEN /\ sentences' = [i \in 1..Len(data) |->
                                IF i <= Len(sentences)
                                THEN [data[i] EXCEPT !.original_text = sentences[i].original_text]
                                ELSE data[i]]
            /\ baseline' = PristineTexts(data)
            /\ loaded' = PristineTexts(data)
       ELSE UNCHANGED <<sentences, histVars>>
    /\ UNCHANGED <<phase, taskId, editingIndex, editValue, crashed, llmVars,
                   alignVars, parseVars, patchVars, frameVars, scriptVars, cancelVars, progVars>>
    /\ UNCHANGED lateVars

\* lines 617-635: the response of /api/youtube/{taskId}/resegment arrives
ResegmentResponse(ok, data) ==
    /\ ~crashed
    /\ resegmenting
    /\ resegmenting' = FALSE
    /\ IF ok
       THEN /\ sentences' = data
            /\ baseline' = PristineTexts(data)
            /\ loaded' = PristineTexts(data)
       ELSE UNCHANGED <<sentences, histVars>>
    /\ UNCHANGED <<phase, taskId, editingIndex, editValue, crashed, llmVars,
                   alignVars, parseVars, patchVars, frameVars, scriptVars, cancelVars, progVars>>
    /\ UNCHANGED lateVars

NextReseg ==
    \/ Next
    \/ handleResegment
    \/ \E ok \in BOOLEAN, data \in ResegStores : ResegmentResponse(ok, data)

SpecReseg == Init /\ [][NextReseg]_vars

\* ----------------------------------------------------------------- C12
\* C12: the Sentence Store has one writer at a time: no resegmentation request
\* is in flight while a refinement session is active, and none is started
\* during one, nor a session during a resegmentation.
C12_SingleWriter == ~(resegmenting /\ llmProgress >= 0)

\* ------------------------------------------------------------------------
\* Session runs: a refinement session whose response has arrived, fed with a
\* script of frames, with the cancel button
\* ------------------------------------------------------------------------
\* The frames of a script: patches at 50 percent, terminal frames at 100
\* percent with no sentences or at most one fresh sentence, malformed payloads
ScriptFrames ==
    {f \in Frames :
        /\ f.kind = "patch" => f.percent = 50
        /\ f.kind = "done" =>
               /\ f.percent = 100
               /\ Len(f.sentences) <= 1
               /\ \A i \in 1..Len(f.sentences) : f.sentences[i].original_text = Undefined}

Scripts == UNION {[1..n -> ScriptFrames] : n \in 1..MaxFrames}

\* The state after handleLlmProcess and an ok response, on a freshly cut store
InitSession ==
    /\ phase = "ready"
    /\ taskId \in TaskIds
    /\ sentences \in ResegStores
    /\ editingIndex = -1
    /\ editValue = ""
    /\ crashed = FALSE
    /\ llmProgress = 0
    /\ llmError = ""
    /\ llmRequests = 0
    /\ llmReaders = 1
    /\ llmDoneReaders = 0
    /\ llmTimers = 0
    /\ llmStarted = 1
    /\ frameScript \in Scripts
    /\ framesLeft = Len(frameScript)
    /\ baseline = PristineTexts(sentences)
    /\ loaded = PristineTexts(sentences)
    /\ frameIn = [kind |-> "none"]
    /\ frameBefore = sentences
    /\ AlignOff
    /\ ParseOff
    /\ PatchOff
    /\ ResegOff
    /\ CancelOff
    /\ ProgOff
    /\ LateOff

\* The number of frames of the script processed so far
Delivered == Len(frameScript) - framesLeft

\* The read loop processes the next frame of the script
ScriptFrame ==
    /\ framesLeft > 0
    /\ \E afterDone \in BOOLEAN : LlmFrame(frameScript[Delivered + 1], afterDone)

\* A cancel that tears the session down locally
handleLlmCancelAborts(ok) ==
    /\ ~crashed
    /\ phase = "ready"
    /\ llmProgress >= 0
    /\ taskId # Null
    /\ cancelAttempts < MaxCancels
    /\ cancelAttempts' = cancelAttempts + 1
    /\ cancelDelivered' = IF ok THEN cancelDelivered + 1 ELSE cancelDelivered
    /\ llmProgress' = -1
    /\ llmReaders' = 0
    /\ llmDoneReaders' = 0
    /\ UNCHANGED <<viewVars, llmError, llmRequests, llmTimers, llmStarted, framesLeft,
                   histVars, alignVars, parseVars, patchVars, frameVars, resegVars,
                   scriptVars, progVars>>
    /\ UNCHANGED lateVars

\* lines 522-531, from the cancel button (shown while llmProgress >= 0, line
\* 975); ok is whether the request reached /api/llm/cancel
handleLlmCancel(ok) ==
    /\ ~crashed
    /\ phase = "ready"
    /\ llmProgress >= 0
    /\ taskId # Null
    /\ cancelAttempts < MaxCancels
    /\ cancelAttempts' = cancelAttempts + 1
    /\ cancelDelivered' = IF ok THEN cancelDelivered + 1 ELSE cancelDelivered
    /\ UNCHANGED <<viewVars, llmVars, histVars, alignVars, parseVars, patchVars, frameVars,
                   resegVars, scriptVars, progVars>>
    /\ UNCHANGED lateVars

NextSession ==
    \/ ScriptFrame
    \/ \E ok \in BOOLEAN : handleLlmCancel(ok)
    \/ \E afterDone \in BOOLEAN : LlmReadError(afterDone)
    \/ \E afterDone \in BOOLEAN : LlmReadDone(afterDone)
    \/ LlmTimerFire

SpecSession == InitSession /\ [][NextSession]_vars

\* ----------------------------------------------------------------- C13
\* C13: handleLlmCancel only sends a stop request: it changes neither
\* llmProgress nor the Sentence Store nor anything else of the session and
\* leaves the read loop open, so that the loop still processes the frames
\* that follow; a cancel whose request fails changes nothing but the count of
\* attempts.
C13_CancelOnlyRequests ==
    /\ [][\A ok \in BOOLEAN :
             handleLlmCancel(ok) =>
                 /\ UNCHANGED <<viewVars, llmVars, histVars>>
                 /\ ~ok => UNCHANGED cancelDelivered]_vars
    /\ [](cancelAttempts > 0 /\ framesLeft > 0 /\ ~crashed /\ llmReaders + llmDoneReaders > 0
            => ENABLED ScriptFrame)

\* a stop request was delivered after the first patch of a session; the read
\* loop is still open and the producer's terminal frame is still to come
C13_Witness ==
    /\ cancelDelivered = 1
    /\ Len(frameScript) = 2 /\ framesLeft = 1
    /\ frameScript[1].kind = "patch" /\ frameScript[1].index = 0
    /\ frameScript[2].kind = "done" /\ frameScript[2].cancelled
    /\ Len(sentences) >= 1 /\ sentences[1].text = frameScript[1].processed_text
    /\ llmReaders = 1
    /\ llmProgress = 50

\* ----------------------------------------------------------------- C14
\* C14: a terminal frame with cancelled = true sets llmError to the
\* "interrupted" message, one without cancelled leaves llmError empty; in both
\* cases the page stays on the task: phase, task id and the store (as the
\* frame left it) are kept and the view is not torn down.
C14_CancelledIsInterrupted ==
    (FrameProcessed /\ frameIn.kind = "done") =>
        /\ llmError = IF frameIn.cancelled THEN Interrupted ELSE ""
        /\ phase = "ready"
        /\ taskId \in TaskIds
        /\ ~crashed
        /\ sentences = IF frameIn.hasSentences THEN frameIn.sentences ELSE frameBefore

\* a cancelled terminal frame without sentences was processed on a store of
\* two sentences
C14_Witness ==
    /\ FrameProcessed
    /\ frameIn.kind = "done" /\ frameIn.cancelled /\ ~frameIn.hasSentences
    /\ llmError = Interrupted
    /\ Len(sentences) = 2
    /\ phase = "ready"

\* ----------------------------------------------------------------- C15
\* C15: a malformed frame is skipped: processing it changes neither the
\* Sentence Store nor llmProgress nor llmError and leaves the read loop open;
\* the well-formed frame that follows it is processed (a patch for an index of
\* the store sets that text, a terminal frame with sentences replaces the
\* store).
C15_MalformedSkipped ==
    /\ [][\A afterDone \in BOOLEAN :
             LlmFrame(MalformedFrame, afterDone) =>
                 UNCHANGED <<sentences, llmProgress, llmError, llmReaders, llmDoneReaders,
                             crashed>>]_vars
    /\ [](Delivered >= 2 /\ frameScript[Delivered - 1].kind = "malformed" /\ ~crashed =>
            LET f == frameScript[Delivered]
            IN  /\ (f.kind = "patch" /\ f.index < Len(sentences)) =>
                       sentences[f.index + 1].text = f.processed_text
                /\ (f.kind = "done" /\ f.hasSentences) => sentences = f.sentences
                /\ (f.kind # "malformed" /\ llmProgress >= 0) => llmProgress = f.percent)

\* a malformed frame was followed by a patch that changed the first sentence
C15_Witness ==
    /\ Len(frameScript) = 2 /\ framesLeft = 0
    /\ frameScript[1].kind = "malformed"
    /\ frameScript[2].kind = "patch" /\ frameScript[2].index = 0
    /\ Len(frameBefore) >= 1 /\ frameBefore[1].text = "a"
    /\ sentences[1].text = "b" /\ sentences[1].original_text = "a"
    /\ llmProgress = 50
    /\ llmError = ""

\* ------------------------------------------------------------------------
\* Task progress in SubSync: handleSubmit, listenProgress, fetchResult
\* (SubSync.jsx 197-306)
\* ------------------------------------------------------------------------
\* Error texts: line 229, lines 259 and 290, lines 276-277
SubmitFailed == "submit failed"
ProcessingFailed == "processing failed"
FetchFailed == "fetch failed"

\* x || fallback, for a message string
MessageOr(message, fallback) == IF message = "" THEN fallback ELSE message

\* ProgressEvents: non-terminal ones at 30 or 40 percent, a terminal one at
\* 100 percent, and a terminal one at 30 percent with or without a message
ProgressEvents ==
    [percent : {30, 40}, done : {FALSE}, message : {"m"}]
    \cup {[percent |-> 100, done |-> TRUE, message |-> "m"]}
    \cup [percent : {30}, done : {TRUE}, message : {"", "m"}]

\* What a producer sends: events, of which only the last may be terminal
EventScripts ==
    {sc \in UNION {[1..n -> ProgressEvents] : n \in 1..MaxEvents} :
        \A i \in 1..(Len(sc) - 1) : ~sc[i].done}

\* The store of a completed Task
FetchedStores == {st \in ResegStores : Len(st) = 1}

\* What GET /api/tasks/{tid} can answer: a Task by status (a completed one
\* carries its `sentences`, one in progress comes with or without
\* `progress`), or no Task (not ok, or the request fails)
FetchResults ==
    [kind : {"completed"}, hasSentences : {TRUE}, sentences : FetchedStores]
    \cup [kind : {"failed"}, message : {"", "m"}]
    \cup {[kind |-> "pending", hasProgress |-> FALSE, progress |-> 0],
          [kind |-> "processing", hasProgress |-> TRUE, progress |-> 40]}
    \cup {[kind |-> "error"]}

FetchOutcomeNoFailedBranch(r) ==
    CASE r.kind = "error" -> "error"
      [] r.kind = "completed" /\ r.hasSentences -> "ready"
      [] OTHER -> "poll"

\* A fetchResult that does not test resp.ok: a failed request is taken for a
\* Task still in progress
FetchOutcomeErrorPolls(r) ==
    CASE r.kind = "completed" /\ r.hasSentences -> "ready"
      [] r.kind = "failed" -> "failed"
      [] OTHER -> "poll"

\* The branch fetchResult takes on an answer (lines 275-305): the catch
\* block, the completed Task with sentences, the failed Task, and the else
\* branch that waits and fetches again
FetchOutcome(r) ==
    CASE r.kind = "error" -> "error"
      [] r.kind = "completed" /\ r.hasSentences -> "ready"
      [] r.kind = "failed" -> "failed"
      [] OTHER -> "poll"

InitProgress ==
    /\ ViewInit
    /\ framesLeft = 0
    /\ progress = 0
    /\ error = ""
    /\ subsOpen = 0 /\ submitPending = 0 /\ fetchPending = 0 /\ retryTimers = 0
    /\ submits = 0 /\ clicks = 0
    /\ eventScript \in EventScripts
    /\ eventsLeft = Len(eventScript)
    /\ AlignOff
    /\ ParseOff
    /\ PatchOff
    /\ FrameOff
    /\ ResegOff
    /\ ScriptOff
    /\ CancelOff
    /\ LateOff

\* lines 197-204: the submit button of the input phase, up to the await
handleSubmit ==
    /\ ~crashed
    /\ phase = "input"
    /\ submits < MaxSubmits
    /\ error' = ""
    /\ phase' = "processing"
    /\ progress' = 0
    /\ submitPending' = submitPending + 1
    /\ submits' = submits + 1
    /\ UNCHANGED <<taskId, sentences, editingIndex, editValue, crashed, llmVars, histVars,
                   subsOpen, fetchPending, retryTimers, clicks, eventScript,
                   eventsLeft, alignVars, parseVars, patchVars, frameVars, resegVars,
                   scriptVars, cancelVars>>
    /\ UNCHANGED lateVars

\* lines 227-242: the analyze request is answered; ok starts listenProgress
\* (lines 246-248)
SubmitResponse(ok, tid) ==
    /\ ~crashed
    /\ submitPending > 0
    /\ submitPending' = submitPending - 1
    /\ IF ok
       THEN /\ taskId' = tid
            /\ subsOpen' = subsOpen + 1
            /\ historyLoading' = TRUE
            /\ urlTask' = tid
            /\ UNCHANGED <<phase, error>>
       ELSE /\ error' = SubmitFailed
            /\ phase' = "input"
            /\ UNCHANGED <<taskId, subsOpen, historyLoading, urlTask>>
    /\ UNCHANGED <<sentences, editingIndex, editValue, crashed, llmVars, histVars, progress,
                   fetchPending, retryTimers, submits, clicks, eventScript,
                   eventsLeft, alignVars, parseVars, patchVars, frameVars, resegVars,
                   scriptVars, cancelVars>>
    /\ UNCHANGED <<tdVars, syncVars, ledgerVars, deletes>>

\* The next event of the script
NextEvent == eventScript[Len(eventScript) - eventsLeft + 1]

\* A subscriber that never lets the displayed percent go down
ShownPercentMax(prev, e) == IF e.percent > prev THEN e.percent ELSE prev

\* line 251: setProgress(data.percent || 0)
ShownPercent(prev, e) == IF e.percent = 0 THEN 0 ELSE e.percent

\* A subscriber that fetches the result after every terminal event
TerminalSuccessAlways(e) == TRUE

\* line 256: data.percent >= 100
TerminalSuccess(e) == e.percent >= 100

\* lines 249-264: evtSource.onmessage for the event e
ProgressMessage(e) ==
    /\ ~crashed
    /\ subsOpen > 0
    /\ eventsLeft > 0
    /\ e = NextEvent
    /\ eventsLeft' = eventsLeft - 1
    /\ progress' = ShownPercent(progress, e)
    /\ IF e.done
       THEN /\ subsOpen' = subsOpen - 1
            /\ IF TerminalSuccess(e)
               THEN /\ fetchPending' = fetchPending + 1
                    /\ UNCHANGED <<error, phase>>
               ELSE /\ error' = MessageOr(e.message, ProcessingFailed)
                    /\ phase' = "input"
                    /\ UNCHANGED fetchPending
       ELSE UNCHANGED <<subsOpen, fetchPending, error, phase>>
    /\ UNCHANGED <<taskId, sentences, editingIndex, editValue, crashed, llmVars, histVars,
                   submitPending, retryTimers, submits, clicks, eventScript,
                   alignVars, parseVars, patchVars, frameVars, resegVars, scriptVars,
                   cancelVars>>
    /\ UNCHANGED lateVars

\* A subscriber that reports a broken stream as a failure of the task
ProgressErrorFails ==
    /\ ~crashed
    /\ subsOpen > 0
    /\ subsOpen' = subsOpen - 1
    /\ error' = ProcessingFailed
    /\ phase' = "input"
    /\ UNCHANGED <<taskId, sentences, editingIndex, editValue, crashed, llmVars, histVars,
                   progress, fetchPending, submitPending, retryTimers, submits,
                   clicks, eventScript, eventsLeft, alignVars, parseVars, patchVars,
                   frameVars, resegVars, scriptVars, cancelVars>>
    /\ UNCHANGED lateVars

\* lines 265-269: evtSource.onerror
ProgressError ==
    /\ ~crashed
    /\ subsOpen > 0
    /\ subsOpen' = subsOpen - 1
    /\ fetchPending' = fetchPending + 1
    /\ UNCHANGED <<viewVars, llmVars, histVars, progView, submitPending, retryTimers,
                   submits, clicks, eventScript, eventsLeft, alignVars, parseVars,
                   patchVars, frameVars, resegVars, scriptVars, cancelVars>>
    /\ UNCHANGED lateVars

\* lines 750-753: a click on an entry of the history list (input phase)
HistoryClick ==
    /\ ~crashed
    /\ phase = "input"
    /\ clicks < MaxClicks
    /\ clicks' = clicks + 1
    \* setSearchParams({ taskId: t.id }) and fetchResult(t.id) of the handler, and
    \* a second fetchResult from the effect on searchParams (lines 159-164) when
    \* the click changes the taskId parameter
    /\ \E tid \in TaskIds :
          /\ urlTask' = tid
          /\ fetchPending' = fetchPending + (IF urlTask = tid THEN 1 ELSE 2)
    /\ UNCHANGED <<viewVars, llmVars, histVars, progView, subsOpen, submitPending,
                   retryTimers, submits, eventScript, eventsLeft, alignVars,
                   parseVars, patchVars, frameVars, resegVars, scriptVars, cancelVars>>
    /\ UNCHANGED <<tdVars, syncVars, ledgerVars, historyLoading, deletes>>

\* lines 272-306: fetchResult(tid) gets the answer r
FetchResponse(r, tid) ==
    /\ ~crashed
    /\ fetchPending > 0
    /\ fetchPending' = fetchPending - 1
    /\ CASE FetchOutcome(r) = "error" ->
              /\ error' = FetchFailed
              /\ phase' = "input"
              /\ taskId' = Null
              /\ historyLoading' = TRUE
              /\ UNCHANGED <<sentences, histVars, progress, retryTimers, syncVars>>
         [] FetchOutcome(r) = "ready" ->
              /\ sentences' = r.sentences
              /\ baseline' = PristineTexts(r.sentences)
              /\ loaded' = PristineTexts(r.sentences)
              /\ taskId' = tid
              /\ phase' = "ready"
              /\ historyLoading' = TRUE
              /\ initPlayer
              /\ UNCHANGED <<error, progress, retryTimers>>
         [] FetchOutcome(r) = "failed" ->
              /\ error' = (IF r.kind = "failed"
                           THEN MessageOr(r.message, ProcessingFailed) ELSE error)
              /\ phase' = "input"
              /\ UNCHANGED <<taskId, sentences, histVars, progress, retryTimers, historyLoading,
                             syncVars>>
         [] OTHER ->
              /\ taskId' = tid
              /\ phase' = "processing"
              /\ progress' = IF r.kind \in {"pending", "processing"} /\ r.hasProgress
                             THEN r.progress ELSE progress
              /\ retryTimers' = retryTimers + 1
              /\ UNCHANGED <<error, sentences, histVars, historyLoading, syncVars>>
    /\ UNCHANGED <<editingIndex, editValue, crashed, llmVars, subsOpen, submitPending,
                   submits, clicks, eventScript, eventsLeft, alignVars, parseVars,
                   patchVars, frameVars, resegVars, scriptVars, cancelVars>>
    /\ UNCHANGED <<tdVars, ledgerVars, urlTask, deletes>>

\* line 298: the timer of a fetch that found the Task in progress fires
RetryFire ==
    /\ ~crashed
    /\ retryTimers > 0
    /\ retryTimers' = retryTimers - 1
    /\ fetchPending' = fetchPending + 1
    /\ UNCHANGED <<viewVars, llmVars, histVars, progView, subsOpen, submitPending,
                   submits, clicks, eventScript, eventsLeft, alignVars, parseVars,
                   patchVars, frameVars, resegVars, scriptVars, cancelVars>>
    /\ UNCHANGED lateVars

NextProgress ==
    \/ handleSubmit
    \/ \E ok \in BOOLEAN, tid \in TaskIds : SubmitResponse(ok, tid)
    \/ \E e \in ProgressEvents : ProgressMessage(e)
    \/ ProgressError
    \/ HistoryClick
    \/ \E r \in FetchResults, tid \in TaskIds : FetchResponse(r, tid)
    \/ RetryFire
    \/ handleReset

SpecProgress == InitProgress /\ [][NextProgress]_vars

\* ------------------------------------------------------------------------
\* Fetch runs: the page is opened with a taskId parameter in its URL, so that
\* the effect on searchParams (lines 159-164) has called fetchResult
InitFetch ==
    /\ ViewInit
    /\ framesLeft = 0
    /\ progress = 0
    /\ error = ""
    /\ subsOpen = 0 /\ submitPending = 0 /\ fetchPending = 1 /\ retryTimers = 0
    /\ submits = 0 /\ clicks = 0
    /\ eventScript = <<>> /\ eventsLeft = 0
    /\ AlignOff
    /\ ParseOff
    /\ PatchOff
    /\ FrameOff
    /\ ResegOff
    /\ ScriptOff
    /\ CancelOff
    /\ TdOff
    /\ SyncInit
    /\ LedgerOff
    /\ historyLoading = TRUE
    /\ urlTask \in TaskIds
    /\ deletes = {}

\* lines 126-133: a fetchHistory request is answered (the last one in flight)
HistoryResponse ==
    /\ ~crashed
    /\ historyLoading
    /\ historyLoading' = FALSE
    /\ UNCHANGED <<alignVars, parseVars, patchVars, frameVars, viewVars, llmVars, histVars,
                   resegVars, scriptVars, cancelVars, progVars, tdVars, syncVars, ledgerVars,
                   urlTask, deletes>>

NextFetch ==
    \/ \E r \in FetchResults, tid \in TaskIds : FetchResponse(r, tid)
    \/ RetryFire
    \/ HistoryResponse
    \/ HistoryClick
    \/ handleReset

SpecFetch == InitFetch /\ [][NextFetch]_vars

\* ----------------------------------------------------------------- C21
\* C21: when fetching a Task fails (not found, another non-OK response or a
\* network error) fetchResult sets an error, returns to the input phase,
\* clears taskId, requests the task list again and schedules no further
\* fetch.
C21_FetchFailureCleansUp ==
    [][\A r \in FetchResults, tid \in TaskIds :
          (FetchResponse(r, tid) /\ r.kind = "error") =>
              /\ error' # ""
              /\ phase' = "input"
              /\ taskId' = Null
              /\ historyLoading'
              /\ retryTimers' = retryTimers
              /\ fetchPending' = fetchPending - 1]_vars

\* the Task was found in progress (taskId set, a timer scheduled) and the
\* fetch after the timer failed: error shown, input phase, no taskId, the
\* task list requested, neither a timer nor a fetch pending
C21_Witness ==
    /\ clicks = 0
    /\ progress = 40
    /\ error = FetchFailed
    /\ phase = "input"
    /\ taskId = Null
    /\ historyLoading
    /\ retryTimers = 0
    /\ fetchPending = 0

\* ----------------------------------------------------------------- C16
\* C16: after each ProgressEvent the displayed percent is that event's own
\* percent (not a running maximum), and an event without done = true leaves
\* the processing phase and the subscription as they are: processing ends
\* only with a done event.
C16_LatestPercentShown ==
    [][\A e \in ProgressEvents :
          ProgressMessage(e) =>
              /\ progress' = e.percent
              /\ ~e.done => /\ phase' = phase
                            /\ subsOpen' = subsOpen
                            /\ UNCHANGED <<error, fetchPending, retryTimers>>]_vars

\* of the events [{40,false},{30,false},{100,true}] the first two have been
\* received: 30 is displayed, the phase is still processing and the
\* subscription is open
C16_Witness ==
    /\ Len(eventScript) = 3 /\ eventsLeft = 1
    /\ eventScript[1].percent = 40 /\ ~eventScript[1].done
    /\ eventScript[2].percent = 30 /\ ~eventScript[2].done
    /\ eventScript[3].percent = 100 /\ eventScript[3].done
    /\ progress = 30
    /\ phase = "processing"
    /\ subsOpen = 1
    /\ fetchPending = 0 /\ retryTimers = 0 /\ clicks = 0

\* ----------------------------------------------------------------- C17
\* C17: a ProgressEvent with done = true closes the subscription, and then
\* either (percent >= 100) triggers one fetch of the Task and sets no error,
\* or (otherwise) sets the error to the event's message (a default text when
\* the message is empty), returns to the input phase and triggers no fetch.
C17_TerminalEvent ==
    [][\A e \in ProgressEvents :
          (ProgressMessage(e) /\ e.done) =>
              /\ subsOpen' = subsOpen - 1
              /\ UNCHANGED retryTimers
              /\ IF e.percent >= 100
                 THEN /\ fetchPending' = fetchPending + 1
                      /\ UNCHANGED <<error, phase>>
                 ELSE /\ fetchPending' = fetchPending
                      /\ error' = (IF e.message = "" THEN ProcessingFailed ELSE e.message)
                      /\ phase' = "input"]_vars

\* a terminal event at 30 percent with the message "m" ended the processing:
\* the message is the error, no fetch was triggered
C17_Witness ==
    /\ eventsLeft = 0
    /\ eventScript[Len(eventScript)].done
    /\ eventScript[Len(eventScript)].percent = 30
    /\ eventScript[Len(eventScript)].message = "m"
    /\ error = "m"
    /\ phase = "input"
    /\ subsOpen = 0 /\ fetchPending = 0 /\ retryTimers = 0
    /\ clicks = 0

\* ----------------------------------------------------------------- C18
\* C18: a transport error of the progress stream is not a task failure:
\* onerror closes the subscription and triggers a fetch without touching error
\* or phase; a fetched Task that is pending or processing puts the view in the
\* processing phase and sets no error; and an error appears only by a fetched
\* Task with status failed, a failed fetch, a terminal event below 100
\* percent, or a rejected submission.
C18_TransportErrorFallsBack ==
    [][/\ ProgressError =>
              /\ fetchPending' = fetchPending + 1
              /\ subsOpen' = subsOpen - 1
              /\ UNCHANGED <<error, phase, taskId>>
       /\ \A r \in FetchResults, tid \in TaskIds :
              (FetchResponse(r, tid) /\ r.kind \in {"pending", "processing"}) =>
                  /\ phase' = "processing"
                  /\ error' = error
       /\ (error' # error /\ error' # "") =>
              \/ \E r \in FetchResults, tid \in TaskIds :
                     FetchResponse(r, tid) /\ r.kind \in {"failed", "error"}
              \/ \E e \in ProgressEvents : ProgressMessage(e) /\ e.done /\ e.percent < 100
              \/ \E tid \in TaskIds : SubmitResponse(FALSE, tid)]_vars

\* the stream broke before any event arrived and the fetch that followed
\* found the Task still in progress: processing phase, no error, a retry
\* timer pending
C18_Witness ==
    /\ submits = 1 /\ clicks = 0
    /\ eventsLeft = Len(eventScript)
    /\ subsOpen = 0
    /\ progress = 40 /\ retryTimers = 1
    /\ phase = "processing"
    /\ error = ""

SyncStart == <<Sentence(0, 1, "a", Undefined), Sentence(2, 3, "b", Undefined)>>

\* the stores a resegmentation returns
SyncStores ==
    {<<>>,
     <<Sentence(1, 2, "a", Undefined)>>,
     <<Sentence(1, 3, "a", Undefined), Sentence(3, 4, "b", Undefined)>>,
     <<Sentence(0, 0, "a", Undefined), Sentence(1, 1, "b", Undefined),
       Sentence(MaxPlayerTime + 1, MaxPlayerTime + 2, "a", Undefined)>>}

\* the values typed into the offset field (line 839), in half seconds
SyncOffsets == {-2, 0, 2}

InitSync ==
    /\ phase = "ready"
    /\ taskId = 1
    /\ sentences = SyncStart
    /\ editingIndex = -1
    /\ editValue = ""
    /\ crashed = FALSE
    /\ llmProgress = -1
    /\ llmError = ""
    /\ llmRequests = 0
    /\ llmReaders = 0
    /\ llmDoneReaders = 0
    /\ llmTimers = 0
    /\ llmStarted = 0
    /\ framesLeft = 0
    /\ baseline = PristineTexts(SyncStart)
    /\ loaded = PristineTexts(SyncStart)
    /\ activeIndex = -1 /\ offset = 0
    /\ player = "created" /\ playerTime = 0
    /\ timerRef = "null" /\ timers = 0
    /\ passEmitted = FALSE
    /\ mounted = TRUE
    /\ ListInit
    /\ TdOff
    /\ LedgerOff
    /\ AlignOff
    /\ ParseOff
    /\ PatchOff
    /\ FrameOff
    /\ ResegOff
    /\ ScriptOff
    /\ CancelOff
    /\ ProgOff

SyncOthers ==
    <<alignVars, parseVars, patchVars, frameVars, viewVars, llmVars, histVars,
      resegVars, scriptVars, cancelVars, progVars, tdVars, listVars, ledgerVars>>

\* A pass that keeps the store of the render that created the player
PassStoreAtStart == SyncStart

\* line 390: sentencesRef.current
PassStore == sentences

\* A pass that adds the offset
SyncTimeAdded(t, d) == t + d

\* line 390: currentTime - offsetRef.current
SyncTime(t, d) == t - d

\* A pass that calls setActiveIndex every time
EmitsUpdateAlways(idx, prev) == TRUE

\* line 391: idx !== activeIndexRef.current
EmitsUpdate(idx, prev) == idx # prev

\* line 390: the index a pass resolves when the player is at t
PassIndex(t) == findActiveSubtitle(JsArr(PassStore), SyncTime(t, offset))

\* lines 386-395: syncSubtitle, with t the value of getCurrentTime(); without
\* a player it returns at once
syncSubtitle(t) ==
    IF player = "none"
    THEN UNCHANGED <<activeIndex, passEmitted>>
    ELSE /\ passEmitted' = EmitsUpdate(PassIndex(t), activeIndex)
         /\ activeIndex' = IF EmitsUpdate(PassIndex(t), activeIndex)
                           THEN PassIndex(t) ELSE activeIndex

\* lines 367-370: onReady of the YouTube player
PlayerReady ==
    /\ player = "created"
    /\ player' = "cued"
    /\ startTimeSync
    /\ UNCHANGED <<activeIndex, offset, playerTime, passEmitted, mounted, SyncOthers>>

\* lines 336, 372-373: the 'play' event of the local player, PLAYING of the
\* YouTube player; playing again after the end starts from the beginning
PlayerPlay ==
    /\ player \in {"created", "cued", "paused", "ended"}
    /\ player' = "playing"
    /\ playerTime' = IF player = "ended" THEN 0 ELSE playerTime
    /\ startTimeSync
    /\ UNCHANGED <<activeIndex, offset, passEmitted, mounted, SyncOthers>>

\* A pause handler that only stops the timer
PlayerStopsNoSync(state) ==
    /\ player = "playing"
    /\ player' = state
    /\ stopTimeSync
    /\ UNCHANGED <<activeIndex, passEmitted>>
    /\ UNCHANGED <<offset, playerTime, mounted, SyncOthers>>

\* lines 337-344, 374-379: the 'pause' and 'ended' events of the local
\* player, PAUSED and ENDED of the YouTube player
PlayerStops(state) ==
    /\ player = "playing"
    /\ player' = state
    /\ stopTimeSync
    /\ syncSubtitle(playerTime)
    /\ UNCHANGED <<offset, playerTime, mounted, SyncOthers>>

\* the playback position moves on while the player plays
TimeAdvance ==
    /\ player = "playing"
    /\ playerTime < MaxPlayerTime
    /\ playerTime' = playerTime + 1
    /\ UNCHANGED <<activeIndex, offset, player, timerVars, passEmitted, mounted, SyncOthers>>

\* line 399: the interval set by startTimeSync fires
Tick ==
    /\ timers > 0
    /\ syncSubtitle(playerTime)
    /\ UNCHANGED <<offset, player, playerTime, timerVars, mounted, SyncOthers>>

\* lines 410-415: a click on subtitle line idx (line 1029)
handleSubtitleClick(idx) ==
    /\ phase = "ready"
    /\ idx < Len(sentences)
    /\ player # "none"
    /\ playerTime' = sentences[idx + 1].start
    /\ syncSubtitle(sentences[idx + 1].start)
    /\ UNCHANGED <<offset, player, timerVars, mounted, SyncOthers>>

\* line 839: onChange of the offset field
setOffset(d) ==
    /\ phase = "ready"
    /\ offset' = d
    /\ UNCHANGED <<activeIndex, player, playerTime, timerVars, passEmitted, mounted, SyncOthers>>

\* lines 167-174: the cleanup at unmount clears the interval and destroys
\* the player
Unmount ==
    /\ mounted' = FALSE
    /\ timers' = IF timerRef = "live" THEN timers - 1 ELSE timers
    /\ timerRef' = IF timerRef = "live" THEN "cleared" ELSE timerRef
    /\ player' = "none"
    /\ UNCHANGED <<activeIndex, offset, playerTime, passEmitted, SyncOthers>>

\* every step belongs to the mounted page
NextSync ==
    \/ mounted /\ PlayerReady
    \/ mounted /\ PlayerPlay
    \/ mounted /\ \E state \in {"paused", "ended"} : PlayerStops(state)
    \/ mounted /\ TimeAdvance
    \/ mounted /\ Tick
    \/ mounted /\ \E idx \in 0..MaxLen : handleSubtitleClick(idx)
    \/ mounted /\ \E d \in SyncOffsets : setOffset(d)
    \/ mounted /\ handleResegment
    \/ mounted /\ \E ok \in BOOLEAN, data \in SyncStores : ResegmentResponse(ok, data)
    \/ mounted /\ handleReset
    \/ mounted /\ Unmount

SpecSync == InitSync /\ [][NextSync]_vars

\* ------------------------------------------------------------------ C39
\* C39: in every reachable state activeIndex is -1 or a valid index of the
\* current Sentence Store, also right after the store was replaced by a
\* shorter one while playback is paused.
C39_ActiveIndexValid ==
    activeIndex = -1 \/ (0 <= activeIndex /\ activeIndex < Len(sentences))

\* ------------------------------------------------------------------ C22
\* C22: at most one sync timer is live at any moment: while the player plays
\* exactly one timer runs (a play event starts it, clearing the one before),
\* and once the player has paused or ended none runs.
C22_AtMostOneTimer ==
    /\ timers <= 1
    /\ (player = "playing" => timers = 1 /\ timerRef = "live")
    /\ (player \in {"paused", "ended"} => timers = 0 /\ timerRef = "null")

\* Reached: played from the cued state, where onReady had already started a
\* timer, then paused at position 2: no timer is left.
C22_Witness ==
    /\ player = "paused"
    /\ playerTime = 2
    /\ timers = 0
    /\ timerRef = "null"
    /\ mounted

\* ------------------------------------------------------------------ C23
\* C23: a pause or an ended event stops the timer and then runs one more
\* pass: afterwards no timer is live and the highlighted index is the one
\* resolved at the position where playback stopped.
C23_StopRunsFinalPass ==
    [][\A state \in {"paused", "ended"} :
          PlayerStops(state) =>
              /\ timers' = 0
              /\ activeIndex' = findActiveSubtitle(JsArr(sentences), playerTime - offset)]_vars

\* Reached: playback stopped at position 3, never the start of a clicked
\* line, and the pass run by the stop itself moved the highlight to line 1.
C23_Witness ==
    /\ player \in {"paused", "ended"}
    /\ sentences = SyncStart
    /\ offset = 0
    /\ playerTime = 3
    /\ activeIndex = 1
    /\ passEmitted
    /\ timers = 0

\* ------------------------------------------------------------------ C24
\* C24: a timer tick reads the store and the offset current at the moment it
\* runs, not the ones of the render that started the timer.
C24_TickReadsCurrent ==
    [][Tick => /\ sentences' = sentences
               /\ offset' = offset
               /\ activeIndex' = findActiveSubtitle(JsArr(sentences'), playerTime - offset')]_vars

\* Reached: the timer is running and line 2 is highlighted. Line 2 exists
\* only in a replaced store and starts after the last playback position, so
\* the pass that found it ran after the replacement and read the offset -2
\* set after the start.
C24_Witness ==
    /\ player = "playing"
    /\ timers = 1
    /\ Len(sentences) = 3
    /\ offset = -2
    /\ playerTime = 3
    /\ activeIndex = 2
    /\ passEmitted

\* ------------------------------------------------------------------ C25
\* C25: a pass emits an update exactly when the index it resolves differs
\* from the highlighted one; when it is the same the pass changes nothing.
C25_EmitsOnlyOnChange ==
    [][Tick =>
          LET idx == findActiveSubtitle(JsArr(sentences), playerTime - offset)
          IN /\ passEmitted' = (idx # activeIndex)
             /\ (idx = activeIndex =>
                    UNCHANGED <<viewVars, activeIndex, offset, player, playerTime, timerVars>>)]_vars

\* Reached: a tick while playing resolved the index already highlighted.
C25_Witness ==
    /\ player = "playing"
    /\ timers = 1
    /\ activeIndex = 1
    /\ playerTime = 3
    /\ ~passEmitted

\* ------------------------------------------------------------------ C26
\* C26: a pass resolves the index at playback position minus offset: the
\* last line started by that time, or none.
C26_OffsetSubtracted ==
    [][(Tick \/ (\E state \in {"paused", "ended"} : PlayerStops(state))
             \/ (\E idx \in 0..MaxLen : handleSubtitleClick(idx))) =>
          LET started == StartedBy(sentences, playerTime' - offset)
          IN activeIndex' = IF started = {} THEN -1 ELSE Max(started)]_vars

\* Reached: offset 2 (one second) and position 4 (two seconds) highlight the
\* line of position 2, not the one of position 4.
C26_Witness ==
    /\ offset = 2
    /\ playerTime = 4
    /\ sentences = <<Sentence(1, 3, "a", Undefined), Sentence(3, 4, "b", Undefined)>>
    /\ activeIndex = 0
    /\ passEmitted
    /\ player = "playing"

\* ------------------------------------------------------------------------
\* Ledger runs: the updaters of saveEdit, handleRevertEdit and handleRevertAll
\* applied to every store, whatever the page shows.
\* the texts typed into the edit field
LedgerTexts == Texts \cup {"c"}

InitLedger ==
    /\ ledgerStore \in LedgerStores
    /\ ledgerPrev = ledgerStore
    /\ ledgerBefore = ledgerStore
    /\ ledgerOps = <<>>
    /\ AlignOff
    /\ ParseOff
    /\ PatchOff
    /\ FrameOff
    /\ ViewOff
    /\ ResegOff
    /\ ScriptOff
    /\ CancelOff
    /\ ProgOff
    /\ TdOff
    /\ ListInit
    /\ SyncInit

LedgerOthers ==
    <<alignVars, parseVars, patchVars, frameVars, viewVars, llmVars, histVars,
      resegVars, scriptVars, cancelVars, progVars, tdVars, listVars, syncVars>>

\* the operation op has produced the store next
LedgerStep(op, next) ==
    /\ ledgerBefore' = ledgerPrev
    /\ ledgerPrev' = ledgerStore
    /\ ledgerStore' = next
    /\ ledgerOps' = IF ledgerOps = <<>> THEN <<op>> ELSE <<ledgerOps[Len(ledgerOps)], op>>
    /\ UNCHANGED LedgerOthers

\* lines 566-576: saveEdit(idx) with editValue = value
commitEdit(idx, value) ==
    /\ idx < Len(ledgerStore)
    /\ LedgerStep([op |-> "edit", index |-> idx, value |-> value],
                  SaveEditUpdate(ledgerStore, idx, value))

\* lines 578-588: handleRevertEdit(e, idx)
revert(idx) ==
    /\ idx < Len(ledgerStore)
    /\ LedgerStep([op |-> "revert", index |-> idx], RevertUpdate(ledgerStore, idx))

\* lines 590-602: handleRevertAll, with the answer given to confirm()
revertAll(confirmed) ==
    LedgerStep([op |-> "revertAll", confirmed |-> confirmed],
               IF confirmed THEN RevertAllUpdate(ledgerStore) ELSE ledgerStore)

NextLedger ==
    \/ \E idx \in 0..(MaxSentences - 1), value \in LedgerTexts : commitEdit(idx, value)
    \/ \E idx \in 0..(MaxSentences - 1) : revert(idx)
    \/ \E confirmed \in BOOLEAN : revertAll(confirmed)

SpecLedger == InitLedger /\ [][NextLedger]_vars

LastOp == ledgerOps[Len(ledgerOps)]

\* the lines other than idx, the length and all times are as before
LedgerFrame(idx) ==
    /\ Len(ledgerStore) = Len(ledgerPrev)
    /\ \A i \in 1..Len(ledgerStore) :
          /\ ledgerStore[i].start = ledgerPrev[i].start
          /\ ledgerStore[i].end = ledgerPrev[i].end
          /\ (i # idx + 1 => ledgerStore[i] = ledgerPrev[i])

\* ------------------------------------------------------------------ C27
\* C27: a committed edit writes the new text, and sets original_text to the
\* pre-edit text only when it was unset and the new text differs; of two
\* edits in a row on one line only the first captures original_text.
C27_EditCapturesOnce ==
    /\ (ledgerOps # <<>> /\ LastOp.op = "edit") =>
          LET old == ledgerPrev[LastOp.index + 1]
              new == ledgerStore[LastOp.index + 1]
          IN  /\ new.text = LastOp.value
              /\ new.original_text =
                    IF old.original_text = Undefined /\ LastOp.value # old.text
                    THEN old.text ELSE old.original_text
              /\ LedgerFrame(LastOp.index)
    /\ (/\ Len(ledgerOps) = 2
        /\ ledgerOps[1].op = "edit" /\ ledgerOps[2].op = "edit"
        /\ ledgerOps[1].index = ledgerOps[2].index
        /\ ledgerPrev[ledgerOps[1].index + 1].original_text # Undefined) =>
          LET i == ledgerOps[1].index + 1
          IN  /\ ledgerStore[i].original_text = ledgerPrev[i].original_text
              /\ ledgerStore[i].text = ledgerOps[2].value

\* Reached: a line without original_text edited from "a" to "b" and then to
\* "c": original_text is still "a".
C27_Witness ==
    /\ Len(ledgerOps) = 2
    /\ ledgerOps[1] = [op |-> "edit", index |-> 0, value |-> "b"]
    /\ ledgerOps[2] = [op |-> "edit", index |-> 0, value |-> "c"]
    /\ ledgerBefore[1].text = "a"
    /\ ledgerBefore[1].original_text = Undefined
    /\ ledgerStore[1].text = "c"
    /\ ledgerStore[1].original_text = "a"

\* ------------------------------------------------------------------ C28
\* The store was edited at a line and reverted at the same line right after
EditThenRevert ==
    /\ Len(ledgerOps) = 2
    /\ ledgerOps[1].op = "edit"
    /\ ledgerOps[2].op = "revert"
    /\ ledgerOps[1].index = ledgerOps[2].index

\* C28 as stated: a revert right after an edit gives the line the text it had
\* before the edit and leaves it without original_text.
C28_RevertRestoresPreEdit ==
    EditThenRevert =>
        LET i == ledgerOps[1].index + 1
        IN  /\ ledgerStore[i].text = ledgerBefore[i].text
            /\ ledgerStore[i].original_text = Undefined

\* C28: a revert right after an edit leaves the line without original_text;
\* its text is the one it had before the edit when the line had no
\* original_text then, and the original_text it had then otherwise.
C28_RevertRestoresOriginal ==
    EditThenRevert =>
        LET i == ledgerOps[1].index + 1
        IN  /\ ledgerStore[i].original_text = Undefined
            /\ ledgerStore[i].text =
                  IF ledgerBefore[i].original_text = Undefined
                  THEN ledgerBefore[i].text
                  ELSE ledgerBefore[i].original_text

\* Reached: a line without original_text edited from "a" to "c" and reverted.
C28_Witness ==
    /\ EditThenRevert
    /\ ledgerOps[1].value = "c"
    /\ ledgerBefore[ledgerOps[1].index + 1].original_text = Undefined
    /\ ledgerPrev[ledgerOps[1].index + 1].text = "c"
    /\ ledgerPrev[ledgerOps[1].index + 1].original_text = "a"
    /\ ledgerStore[ledgerOps[1].index + 1].text = "a"

\* ------------------------------------------------------------------ C29
\* C29: revert(index) restores text from original_text and clears it when it
\* is set, and does nothing when it is not; the other lines, the length and
\* all times stay as they were.
C29_RevertOneLine ==
    (ledgerOps # <<>> /\ LastOp.op = "revert") =>
        LET old == ledgerPrev[LastOp.index + 1]
            new == ledgerStore[LastOp.index + 1]
        IN  /\ (old.original_text # Undefined =>
                   new.text = old.original_text /\ new.original_text = Undefined)
            /\ (old.original_text = Undefined => ledgerStore = ledgerPrev)
            /\ LedgerFrame(LastOp.index)

\* Reached: line 0 of a store of two edited lines reverted; line 1 keeps its
\* original_text.
C29_Witness ==
    /\ ledgerOps # <<>>
    /\ LastOp = [op |-> "revert", index |-> 0]
    /\ Len(ledgerPrev) = 2
    /\ ledgerPrev[1].text = "b" /\ ledgerPrev[1].original_text = "a"
    /\ ledgerPrev[2].text = "b" /\ ledgerPrev[2].original_text = "a"
    /\ ledgerStore[1].text = "a" /\ ledgerStore[1].original_text = Undefined
    /\ ledgerStore[2] = ledgerPrev[2]

\* ------------------------------------------------------------------ C30
\* C30: a confirmed revertAll reverts every line that has original_text and
\* leaves the others as they were, so that no line has original_text
\* afterwards; a declined one leaves the store as it was.
C30_RevertAllLines ==
    (ledgerOps # <<>> /\ LastOp.op = "revertAll") =>
        IF LastOp.confirmed
        THEN /\ Len(ledgerStore) = Len(ledgerPrev)
             /\ \A i \in 1..Len(ledgerStore) :
                   /\ ledgerStore[i].original_text = Undefined
                   /\ ledgerPrev[i].original_text # Undefined =>
                         ledgerStore[i].text = ledgerPrev[i].original_text
                   /\ ledgerPrev[i].original_text = Undefined =>
                         ledgerStore[i] = ledgerPrev[i]
        ELSE ledgerStore = ledgerPrev

\* Reached: a confirmed revertAll on a store with an untouched line 0 and an
\* edited line 1.
C30_Witness ==
    /\ ledgerOps # <<>>
    /\ LastOp = [op |-> "revertAll", confirmed |-> TRUE]
    /\ Len(ledgerPrev) = 2
    /\ ledgerPrev[1].original_text = Undefined
    /\ ledgerPrev[2].original_text = "a" /\ ledgerPrev[2].text = "b"
    /\ ledgerStore[1] = ledgerPrev[1]
    /\ ledgerStore[2].text = "a"

\* ------------------------------------------------------------------------
\* Store runs: an opened task with the edit ledger, the save button and the
\* resegmentation, without a refinement session. A click on the apply button
\* takes the focus from an open textarea first (onBlur, line 1042), so an edit
\* is never open when handleResegment starts.
\* ------------------------------------------------------------------------
NextStore ==
    \/ \E tid \in TaskIds, data \in ServerStores : OpenTask(tid, data)
    \/ \E idx \in 0..(MaxSentences - 1) : startEdit(idx)
    \/ \E v \in Texts : setEditValue(v)
    \/ \E idx \in 0..(MaxSentences - 1) : saveEdit(idx)
    \/ \E idx \in 0..(MaxSentences - 1) : handleRevertEdit(idx)
    \/ \E confirmed \in BOOLEAN : handleRevertAll(confirmed)
    \/ \E ok \in BOOLEAN : handleSaveSentences(ok)
    \/ editingIndex = -1 /\ handleResegment
    \/ \E ok \in BOOLEAN, data \in ResegStores : ResegmentResponse(ok, data)

SpecStore == Init /\ [][NextStore]_vars

\* ------------------------------------------------------------------ C31
\* C31: a save, stored or not, leaves every sentence's text and original_text
\* as they were, so that a modified line can still be reverted.
C31_SaveKeepsStore ==
    [][\A ok \in BOOLEAN :
          handleSaveSentences(ok) =>
              /\ sentences' = sentences
              /\ \A i \in 1..Len(sentences) : IsModified(sentences[i]) => IsModified(sentences'[i])]_vars

\* Reached: line 0 was stored with its edited text "b" and still carries its
\* original_text "a".
C31_Witness ==
    /\ phase = "ready"
    /\ Len(sentences) >= 1
    /\ sentences[1].text = "b"
    /\ sentences[1].original_text = "a"
    /\ baseline[1] = "b"

\* ------------------------------------------------------------------ C32
\* C32: a successful resegmentation makes the store exactly the returned
\* sequence, in which no line has an original_text; a failed one leaves the
\* store as it was.
C32_ResegmentReplaces ==
    [][\A ok \in BOOLEAN, data \in ResegStores :
          ResegmentResponse(ok, data) =>
              IF ok
              THEN /\ sentences' = data
                   /\ \A i \in 1..Len(sentences') : sentences'[i].original_text = Undefined
              ELSE sentences' = sentences]_vars

\* Reached: a store of two lines was replaced by one fresh line (a store
\* changes its length by a resegmentation only); the edit opened on line 1
\* while the request was in flight tells the old length.
C32_Witness ==
    /\ phase = "ready"
    /\ ~resegmenting
    /\ editingIndex = 1
    /\ sentences = <<Sentence(0, 1, "a", Undefined)>>
    /\ loaded = <<"a">>

\* ------------------------------------------------------------------ C33
\* C33: once a resegmentation has replaced the store no edit is open:
\* editingIndex is -1.
C33_ResegmentClosesEdit ==
    [][\A data \in ResegStores :
          ResegmentResponse(TRUE, data) => editingIndex' = -1]_vars

\* ------------------------------------------------------------------------
\* History runs: the page as it loads, with or without a taskId parameter in
\* its URL, the history list of the input phase with its delete buttons, the
\* fetchResult chains and the reset buttons.
\* ------------------------------------------------------------------------
\* the ids of the tasks in the history list
HistoryIds == TaskIds \cup {2}

InitHistory ==
    /\ ViewInit
    /\ framesLeft = 0
    /\ progress = 0
    /\ error = ""
    /\ subsOpen = 0 /\ submitPending = 0 /\ retryTimers = 0
    /\ submits = 0 /\ clicks = 0
    /\ eventScript = <<>> /\ eventsLeft = 0
    /\ \/ urlTask = Null /\ fetchPending = 0
       \/ urlTask \in TaskIds /\ fetchPending = 1
    /\ historyLoading = TRUE
    /\ deletes = {}
    /\ AlignOff
    /\ ParseOff
    /\ PatchOff
    /\ FrameOff
    /\ ResegOff
    /\ ScriptOff
    /\ CancelOff
    /\ TdOff
    /\ SyncInit
    /\ LedgerOff

\* lines 603-606: the delete button of a history entry (input phase), up to
\* the await; the handler keeps the taskId of the render it was created in
handleDeleteHistory(id, confirmed) ==
    /\ ~crashed
    /\ phase = "input"
    /\ deletes' = IF confirmed THEN deletes \cup {[id |-> id, shown |-> taskId]} ELSE deletes
    /\ UNCHANGED <<alignVars, parseVars, patchVars, frameVars, viewVars, llmVars, histVars,
                   resegVars, scriptVars, cancelVars, progVars, tdVars, syncVars, ledgerVars,
                   historyLoading, urlTask>>

\* lines 607-610: the DELETE request d is answered (with any status), or
\* fetchWithAuth throws
DeleteResponse(d, thrown) ==
    /\ ~crashed
    /\ d \in deletes
    /\ deletes' = deletes \ {d}
    /\ IF ~thrown /\ d.shown = d.id
       THEN resetView
       ELSE /\ historyLoading' = (IF thrown THEN historyLoading ELSE TRUE)
            /\ UNCHANGED <<alignVars, parseVars, patchVars, frameVars, viewVars, llmVars,
                           histVars, resegVars, scriptVars, cancelVars, progVars, tdVars,
                           syncVars, ledgerVars, urlTask>>

NextHistory ==
    \/ HistoryClick
    \/ \E r \in FetchResults, tid \in TaskIds : FetchResponse(r, tid)
    \/ RetryFire
    \/ HistoryResponse
    \/ handleReset
    \/ \E id \in HistoryIds, confirmed \in BOOLEAN : handleDeleteHistory(id, confirmed)
    \/ \E d \in deletes, thrown \in BOOLEAN : DeleteResponse(d, thrown)

SpecHistory == InitHistory /\ [][NextHistory]_vars

\* ------------------------------------------------------------------ C34
\* C34: when the deletion of the displayed task is answered the view is reset
\* (phase input, no task id, empty store, activeIndex -1, no timer, no
\* player); the deletion of another task changes none of these.
C34_DeleteDisplayedResets ==
    [][\A d \in deletes :
          DeleteResponse(d, FALSE) =>
              IF taskId = d.id
              THEN /\ phase' = "input" /\ taskId' = Null /\ sentences' = <<>>
                   /\ activeIndex' = -1 /\ timers' = 0 /\ player' = "none"
              ELSE UNCHANGED <<phase, taskId, sentences, activeIndex, timers, player>>]_vars

\* ------------------------------------------------------------------ C36
\* C36: while the URL names no task (after handleReset, until a task is
\* opened or a source submitted) no answer of a fetchResult and no refetch
\* timer changes phase, taskId, progress or the store.
C36_IdleAfterReset ==
    [][(urlTask = Null /\ (RetryFire \/ \E r \in FetchResults, tid \in TaskIds : FetchResponse(r, tid)))
          => UNCHANGED <<phase, taskId, progress, sentences>>]_vars

\* ------------------------------------------------------------------ C37
\* C37: at most one fetchResult chain is alive: the requests in flight and the
\* refetch timers together are at most one.
C37_OneFetchChain == fetchPending + retryTimers <= 1

\* ------------------------------------------------------------------------
\* Form runs: the input phase with a submit whose source is missing. The
\* submit button is disabled then (line 701), the Enter key of the URL field
\* (line 685) calls handleSubmit all the same.
\* ------------------------------------------------------------------------
\* lines 197-199: handleSubmit with an empty URL (youtube) or no file (local):
\* both tests return before setError, setPhase and the request
handleSubmitEmpty ==
    /\ ~crashed
    /\ phase = "input"
    /\ submits < MaxSubmits
    /\ submits' = submits + 1
    /\ UNCHANGED <<phase, taskId, sentences, editingIndex, editValue, crashed, llmVars, histVars,
                   progress, error, subsOpen, submitPending, fetchPending, retryTimers, clicks,
                   eventScript, eventsLeft, alignVars, parseVars, patchVars, frameVars,
                   resegVars, scriptVars, cancelVars>>
    /\ UNCHANGED lateVars

NextForm ==
    \/ handleSubmitEmpty
    \/ handleSubmit
    \/ \E ok \in BOOLEAN, tid \in TaskIds : SubmitResponse(ok, tid)
    \/ HistoryClick
    \/ \E r \in FetchResults, tid \in TaskIds : FetchResponse(r, tid)
    \/ RetryFire
    \/ HistoryResponse
    \/ handleReset

SpecForm == InitHistory /\ [][NextForm]_vars

\* ------------------------------------------------------------------ C35
\* C35: a submit with no source sends no create request, leaves the phase at
\* input, and shows the rejection: the error line of the input phase carries
\* a message after it.
C35_RejectionSurfaced ==
    [][handleSubmitEmpty =>
          /\ submitPending' = submitPending
          /\ phase' = "input"
          /\ error' # ""]_vars


\* ------------------------------------------------------------------------
\* TaskDetail: the task page loads the Task once (effect on [id]) and, while
\* the loaded Task is pending or processing, listens to its progress stream
\* (effect on [task?.status, id]).
TdStatuses == {"pending", "processing", "completed", "failed"}
TdActive == {"pending", "processing"}
TdTerminal == {"completed", "failed"}

\* the percent values a ProgressEvent or a fetched Task carries
TdPercents == {0, 30, 60, 100}

\* The page has just mounted for a Task in any status: task is null and the
\* effect on [id] has called fetchTask (lines 236-238)
InitTaskDetail ==
    /\ tdStatus = "none"
    /\ tdProgress = 0
    /\ tdLoading = TRUE
    /\ tdSub = 0
    /\ tdTimers = 0
    /\ tdFetches = 1
    /\ srvStatus \in TdStatuses
    /\ ListInit
    /\ SyncInit
    /\ LedgerOff
    /\ ViewOff
    /\ AlignOff
    /\ ParseOff
    /\ PatchOff
    /\ FrameOff
    /\ ResegOff
    /\ ScriptOff
    /\ CancelOff
    /\ ProgOff

TdOthers ==
    <<alignVars, parseVars, patchVars, frameVars, viewVars, llmVars, histVars,
      resegVars, scriptVars, cancelVars, progVars, listVars, syncVars, ledgerVars>>

\* The Task State Machine at the server: pending -> processing ->
\* completed | failed
ServerStep ==
    /\ \/ srvStatus = "pending" /\ srvStatus' = "processing"
       \/ srvStatus = "processing" /\ srvStatus' \in TdTerminal
    /\ UNCHANGED <<tdStatus, tdProgress, tdLoading, tdSub, tdTimers, tdFetches, TdOthers>>

\* lines 240-271: the subscriptions open after a render that took task?.status
\* from prev to next. The effect depends on [task?.status, id]: with the
\* status unchanged it does not run and the subscription stays as it is;
\* otherwise its cleanup closes the EventSource and it opens a new one only
\* for a pending or processing Task
SseEffect(prev, next, sub) ==
    IF next = prev THEN sub
    ELSE IF next \in TdActive THEN 1 ELSE 0

\* lines 29-40: fetchTask gets its answer; ok = FALSE is the catch block,
\* which only logs
TdFetchResponse(ok, percent) ==
    /\ tdFetches > 0
    /\ tdFetches' = tdFetches - 1
    /\ IF ok
       THEN /\ tdStatus' = srvStatus
            /\ tdProgress' = percent
            /\ tdSub' = SseEffect(tdStatus, srvStatus, tdSub)
       ELSE UNCHANGED <<tdStatus, tdProgress, tdSub>>
    /\ tdLoading' = FALSE
    /\ UNCHANGED <<tdTimers, srvStatus, TdOthers>>

\* lines 247-261: evtSource.onmessage; the producer sends done = true when
\* the Task has reached a terminal status
TdProgressMessage(percent, done) ==
    /\ tdSub > 0
    /\ done => srvStatus \in TdTerminal
    /\ tdProgress' = percent
    /\ IF done
       THEN /\ tdSub' = tdSub - 1
            /\ tdTimers' = tdTimers + 1
       ELSE UNCHANGED <<tdSub, tdTimers>>
    /\ UNCHANGED <<tdStatus, tdLoading, tdFetches, srvStatus, TdOthers>>

\* lines 264-268: evtSource.onerror
TdProgressError ==
    /\ tdSub > 0
    /\ tdSub' = tdSub - 1
    /\ tdTimers' = tdTimers + 1
    /\ UNCHANGED <<tdStatus, tdProgress, tdLoading, tdFetches, srvStatus, TdOthers>>

\* lines 259, 267: a setTimeout(fetchTask, ...) fires
TdTimerFire ==
    /\ tdTimers > 0
    /\ tdTimers' = tdTimers - 1
    /\ tdFetches' = tdFetches + 1
    /\ UNCHANGED <<tdStatus, tdProgress, tdLoading, tdSub, srvStatus, TdOthers>>

NextTaskDetail ==
    \/ ServerStep
    \/ \E ok \in BOOLEAN, percent \in TdPercents : TdFetchResponse(ok, percent)
    \/ \E percent \in TdPercents, done \in BOOLEAN : TdProgressMessage(percent, done)
    \/ TdProgressError
    \/ TdTimerFire

SpecTaskDetail == InitTaskDetail /\ [][NextTaskDetail]_vars

\* ----------------------------------------------------------------- C20
\* C20: in TaskDetail every refetch that still returns a pending or
\* processing Task is followed by a further refetch or a new subscription:
\* after it a subscription is open, or a timer or a fetch is pending, so that
\* the view goes on until it has loaded a terminal status.
C20_KeepsRetrying ==
    [][\A percent \in TdPercents :
          (TdFetchResponse(TRUE, percent) /\ srvStatus \in TdActive) =>
              (tdSub' > 0 \/ tdTimers' > 0 \/ tdFetches' > 0)]_vars

\* ------------------------------------------------------------------------
\* Patch runs: the updater of a non-terminal frame, applied to a store
\* ------------------------------------------------------------------------
\* Stores of a running session: every text is "a"; original_text is absent
\* or was captured earlier
PatchStores ==
    UNION {[1..n -> {Sentence(0, 1, "a", o) : o \in {Undefined, "b"}}] : n \in 1..MaxLen}

Patches == [index : 0..(MaxLen - 1), processed_text : Texts]

InitPatch ==
    /\ patchStart \in PatchStores
    /\ patchPrev = patchStart
    /\ patchStore = patchStart
    /\ patchLog = <<>>
    /\ AlignOff
    /\ ParseOff
    /\ FrameOff
    /\ ViewOff
    /\ ExtOff

\* setSentences(prev => ...) of lines 500-509 for the frame p
PatchApply(p) ==
    /\ Len(patchLog) < MaxPatches
    /\ p.index < Len(patchStore)
    /\ patchPrev' = patchStore
    /\ patchStore' = ApplyPatch(patchStore, p.index, p.processed_text)
    /\ patchLog' = Append(patchLog, p)
    /\ UNCHANGED <<patchStart, alignVars, parseVars, frameVars, extVars, viewVars, llmVars, histVars>>

NextPatch == \E p \in Patches : PatchApply(p)

SpecPatch == InitPatch /\ [][NextPatch]_vars

\* ------------------------------------------------------------------ C6
\* The positions of patchLog that address index i
PatchesOn(i) == {k \in 1..Len(patchLog) : patchLog[k].index = i}

\* C6: applying the same patch twice in a row gives the store that applying
\* it once gave; and when several patches address one index the last one
\* received determines the text while original_text keeps the value the
\* first one captured.
C6_PatchIdempotent ==
    LET n == Len(patchLog)
    IN  /\ (n >= 2 /\ patchLog[n] = patchLog[n - 1]) => patchStore = patchPrev
        /\ \A i \in 0..(Len(patchStore) - 1) :
               PatchesOn(i) # {} =>
                   /\ patchStore[i + 1].text = patchLog[Max(PatchesOn(i))].processed_text
                   /\ patchStore[i + 1].original_text = Pristine(patchStart[i + 1])

\* the same patch was applied twice in a row to a sentence that had no
\* original_text, and changed its text
C6_Witness ==
    /\ Len(patchLog) >= 2
    /\ patchLog[Len(patchLog)] = patchLog[Len(patchLog) - 1]
    /\ LET i == patchLog[Len(patchLog)].index
       IN  /\ patchStart[i + 1].original_text = Undefined
           /\ patchStore[i + 1].text # patchStart[i + 1].text

\* ------------------------------------------------------------------ C7
\* The patches of the log in the order of their indices (indices distinct)
RECURSIVE ByIndex(_, _)
ByIndex(log, i) ==
    IF i >= MaxLen THEN <<>>
    ELSE (IF \E k \in 1..Len(log) : log[k].index = i
          THEN <<log[CHOOSE k \in 1..Len(log) : log[k].index = i]>>
          ELSE <<>>) \o ByIndex(log, i + 1)

RECURSIVE ApplyAll(_, _)
ApplyAll(store, log) ==
    IF log = <<>> THEN store
    ELSE ApplyAll(ApplyPatch(store, Head(log).index, Head(log).processed_text), Tail(log))

DistinctIndices(log) ==
    \A j, k \in 1..Len(log) : j # k => log[j].index # log[k].index

\* C7: patches for pairwise distinct indices commute: in whatever order they
\* arrive, the store is the one that applying them in index order gives.
C7_DistinctPatchesCommute ==
    DistinctIndices(patchLog) => patchStore = ApplyAll(patchStart, ByIndex(patchLog, 0))

\* the patches for indices 2, 0, 1 arrived in this order
C7_Witness ==
    /\ Len(patchLog) = 3
    /\ patchLog[1].index = 2 /\ patchLog[2].index = 0 /\ patchLog[3].index = 1
    /\ patchStore[1].text = "b" /\ patchStore[3].text = "b"
====
